---------------------------- MODULE Spec2Model ----------------------------
(***************************************************************************)
(* Pythagorean prediction market (programs/prediction_market).             *)
(*                                                                         *)
(* State: the Config singleton, the Market accounts, the token ledger      *)
(* (collateral wallets, vaults, YES/NO token accounts) and the clock.      *)
(* One action per instruction handler; a failing instruction commits       *)
(* nothing and only records its error in `last`.                           *)
(***************************************************************************)
EXTENDS Integers, Sequences, FiniteSets, TLC

(***************************************************************************)
(* u128 arithmetic.  TLC integers are 32 bits wide, so the 128-bit         *)
(* products of redeem and fund_market are carried as little-endian digit   *)
(* sequences in base U128Limb, without leading zero digits (0 is << >>).   *)
(***************************************************************************)
U128Limb == 1000

RECURSIVE WNorm(_)
WNorm(s) ==
    IF s = << >> THEN << >>
    ELSE IF s[Len(s)] = 0 THEN WNorm(SubSeq(s, 1, Len(s) - 1))
    ELSE s

RECURSIVE WFromNat(_)
WFromNat(n) ==
    IF n = 0 THEN << >>
    ELSE << n % U128Limb >> \o WFromNat(n \div U128Limb)

RECURSIVE WToNat(_)
WToNat(s) ==
    IF s = << >> THEN 0
    ELSE Head(s) + U128Limb * WToNat(Tail(s))

RECURSIVE WCmpSame(_, _, _)
WCmpSame(a, b, i) ==
    IF i = 0 THEN 0
    ELSE IF a[i] < b[i] THEN -1
    ELSE IF a[i] > b[i] THEN 1
    ELSE WCmpSame(a, b, i - 1)

WCmp(a, b) ==
    IF Len(a) < Len(b) THEN -1
    ELSE IF Len(a) > Len(b) THEN 1
    ELSE WCmpSame(a, b, Len(a))

WLess(a, b) == WCmp(a, b) < 0
WLeq(a, b) == WCmp(a, b) <= 0

RECURSIVE WAddC(_, _, _)
WAddC(a, b, c) ==
    IF a = << >> /\ b = << >>
    THEN (IF c = 0 THEN << >> ELSE << c >>)
    ELSE LET x == IF a = << >> THEN 0 ELSE Head(a)
             y == IF b = << >> THEN 0 ELSE Head(b)
             s == x + y + c
         IN  << s % U128Limb >>
               \o WAddC(IF a = << >> THEN << >> ELSE Tail(a),
                        IF b = << >> THEN << >> ELSE Tail(b),
                        s \div U128Limb)

WAdd(a, b) == WAddC(a, b, 0)

\* a - b for a >= b
RECURSIVE WSubB(_, _, _)
WSubB(a, b, c) ==
    IF a = << >> THEN << >>
    ELSE LET y == IF b = << >> THEN 0 ELSE Head(b)
             d == Head(a) - y - c
         IN  << IF d < 0 THEN d + U128Limb ELSE d >>
               \o WSubB(Tail(a), IF b = << >> THEN << >> ELSE Tail(b),
                        IF d < 0 THEN 1 ELSE 0)

WSub(a, b) == WNorm(WSubB(a, b, 0))

RECURSIVE WMulC(_, _, _)
WMulC(a, d, c) ==
    IF a = << >> THEN (IF c = 0 THEN << >> ELSE << c >>)
    ELSE LET p == Head(a) * d + c
         IN  << p % U128Limb >> \o WMulC(Tail(a), d, p \div U128Limb)

\* a * d for one digit d
WMulSmall(a, d) == IF d = 0 THEN << >> ELSE WMulC(a, d, 0)

RECURSIVE WMul(_, _)
WMul(a, b) ==
    IF a = << >> \/ b = << >> THEN << >>
    ELSE IF Len(b) = 1 THEN WMulSmall(a, b[1])
    ELSE LET h == Len(b) \div 2
             lo == WMul(a, SubSeq(b, 1, h))
             hi == WMul(a, SubSeq(b, h + 1, Len(b)))
         IN  WAdd(lo, IF hi = << >> THEN << >> ELSE [k \in 1..h |-> 0] \o hi)

\* the largest digit q with q * b <= cur, given lo * b <= cur < hi * b
RECURSIVE WQuotDigit(_, _, _, _)
WQuotDigit(cur, b, lo, hi) ==
    IF hi - lo <= 1 THEN lo
    ELSE LET mid == (lo + hi) \div 2
         IN  IF WLeq(WMulSmall(b, mid), cur)
             THEN WQuotDigit(cur, b, mid, hi)
             ELSE WQuotDigit(cur, b, lo, mid)

\* one digit of the schoolbook long division: the digit d is brought down
\* to the remainder of st and the next digit of the quotient is taken
WDivStep(st, d, b) ==
    CHOOSE res \in
        {CHOOSE qr \in
             {[q |-> WNorm(<< dq >> \o st.q),
               r |-> WSub(cur, WMulSmall(b, dq))] :
                  dq \in {IF Len(cur) <= 3 /\ Len(b) <= 3
                          THEN WToNat(cur) \div WToNat(b)
                          ELSE WQuotDigit(cur, b, 0, U128Limb)}} : TRUE :
             cur \in {WNorm(<< d >> \o st.r)}} : TRUE

\* the digits a[hi] down to a[lo] divided in turn, the upper half first
RECURSIVE WDivDigits(_, _, _, _, _)
WDivDigits(a, b, lo, hi, st) ==
    IF lo = hi THEN WDivStep(st, a[lo], b)
    ELSE CHOOSE res \in
             {WDivDigits(a, b, lo, (lo + hi) \div 2, upper) :
                  upper \in {WDivDigits(a, b, (lo + hi) \div 2 + 1, hi, st)}} : TRUE

\* quotient and remainder of a / b, b /= 0 (schoolbook long division)
WDivMod(a, b) ==
    IF a = << >> THEN [q |-> << >>, r |-> << >>]
    ELSE WDivDigits(a, b, 1, Len(a), [q |-> << >>, r |-> << >>])

WDiv(a, b) == WDivMod(a, b).q


\* 2^63 and 2^64 as u128 digit sequences
TwoPow63 == << 808, 775, 854, 36, 372, 223, 9 >>
TwoPow64 == << 616, 551, 709, 73, 744, 446, 18 >>

\* `x as i64` for a u64 x: two's complement reinterpretation
AsI64(u) ==
    IF WLess(u, TwoPow63) THEN [neg |-> FALSE, mag |-> u]
    ELSE [neg |-> TRUE, mag |-> WSub(TwoPow64, u)]

\* a < b for i64 values
I64Less(a, b) ==
    IF a.neg /\ ~b.neg THEN TRUE
    ELSE IF ~a.neg /\ b.neg THEN FALSE
    ELSE IF a.neg THEN WLess(b.mag, a.mag)
    ELSE WLess(a.mag, b.mag)

\* clock.unix_timestamp (never negative) as an i64
ClockI64(t) == [neg |-> FALSE, mag |-> WFromNat(t)]

(***************************************************************************)
(* amm/bonding_curve.rs                                                    *)
(***************************************************************************)
PRECISION_SCALE == 1000

Ok(v) == [ok |-> TRUE, val |-> v, err |-> "ok"]
Err(e) == [ok |-> FALSE, val |-> 0, err |-> e]

\* the Newton loop of sqrt: while z < y { y = z; z = (x / z + z) / 2 }
RECURSIVE sqrt_loop(_, _, _)
sqrt_loop(x, z, y) ==
    IF z < y THEN sqrt_loop(x, (x \div z + z) \div 2, z)
    ELSE y

sqrt(x) ==
    IF x = 0 THEN 0
    ELSE sqrt_loop(x, (x + 1) \div 2, x)

\* the minted amount left in scaled units
get_tokens_to_mint_unscaled(reserves, target_supply, other_supply, collateral_in) ==
    IF ~(reserves > 0) THEN Err("InvalidReserves")
    ELSE IF ~(collateral_in > 0) THEN Err("InvalidReserves")
    ELSE LET r == reserves \div PRECISION_SCALE
             a == target_supply \div PRECISION_SCALE
             b == other_supply \div PRECISION_SCALE
             l == collateral_in \div PRECISION_SCALE
             new_r == r + l
             new_r_squared == new_r * new_r
             b_squared == b * b
         IN  IF ~(new_r_squared >= b_squared) THEN Err("InvalidSupplies")
             ELSE LET new_a == sqrt(new_r_squared - b_squared)
                  IN  IF ~(new_a > a) THEN Err("NoTokensToMint")
                      ELSE Ok(new_a - a)

get_tokens_to_mint(reserves, target_supply, other_supply, collateral_in) ==
    IF ~(reserves > 0) THEN Err("InvalidReserves")
    ELSE IF ~(collateral_in > 0) THEN Err("InvalidReserves")
    ELSE LET r == reserves \div PRECISION_SCALE
             a == target_supply \div PRECISION_SCALE
             b == other_supply \div PRECISION_SCALE
             l == collateral_in \div PRECISION_SCALE
             new_r == r + l
             new_r_squared == new_r * new_r
             b_squared == b * b
         IN  IF ~(new_r_squared >= b_squared) THEN Err("InvalidSupplies")
             ELSE LET new_a == sqrt(new_r_squared - b_squared)
                  IN  IF ~(new_a > a) THEN Err("NoTokensToMint")
                      ELSE Ok((new_a - a) * PRECISION_SCALE)

get_reserve_to_release(reserves, target_supply, other_supply, tokens_to_burn) ==
    IF ~(tokens_to_burn > 0) THEN Err("InvalidReserves")
    ELSE IF ~(tokens_to_burn <= target_supply) THEN Err("InsufficientTokens")
    ELSE LET r == reserves \div PRECISION_SCALE
             a == target_supply \div PRECISION_SCALE
             b == other_supply \div PRECISION_SCALE
             burn == tokens_to_burn \div PRECISION_SCALE
             new_a == a - burn
             new_r == sqrt(new_a * new_a + b * b)
             collateral_out == IF r > new_r THEN r - new_r ELSE 0
         IN  Ok(collateral_out * PRECISION_SCALE)

(***************************************************************************)
(* instructions/market/create_market.rs: integer_sqrt on u128              *)
(***************************************************************************)
RECURSIVE integer_sqrt_loop(_, _, _)
integer_sqrt_loop(x, z, y) ==
    IF WLess(z, y)
    THEN integer_sqrt_loop(x, WDiv(WAdd(WDiv(x, z), z), << 2 >>), z)
    ELSE y

integer_sqrt(x) ==
    IF x = << >> THEN << >>
    ELSE integer_sqrt_loop(x, WDiv(WAdd(x, << 1 >>), << 2 >>), x)

(***************************************************************************)
(* Bounds of the model and the inputs the instructions are called with.    *)
(***************************************************************************)
MaxMarkets == 1
MaxTime == 2
MaxTrades == 2
MaxFundings == 2
InitialWallet == 1300000

Traders == {"alice", "bob"}
Signers == Traders \cup {"oracle"}
Creators == {"alice"}
Fees == {0, 100}
EndTimes == {WFromNat(2), TwoPow63}
QuestionLens == {256, 257}
Liquidities == {999999, 1000000}
CurveLiquidities == {1000000, 1000999}
BuyAmounts == {1011, 100500}
SellAmounts == {999, 50000}
MinOuts == {0, 1001}

\* initialize.rs: min_liquidity, and the cap on protocol_fee_bps
MIN_LIQUIDITY == 1000000
MAX_FEE_BPS == 3000
\* state/market.rs: #[max_len(256)] question
MAX_QUESTION_LEN == 256
BPS_DENOMINATOR == 10000

VARIABLES
    now,        \* Clock: unix_timestamp
    config,     \* the Config account
    markets,    \* the Market accounts, markets[i].id = i - 1
    wallet,     \* collateral token account of each trader
    vault,      \* collateral vault of each market
    yes_acct,   \* YES token account of each trader, per market
    no_acct,    \* NO token account of each trader, per market
    hist,       \* per market: what the emitted events add up to
    last        \* the last instruction and its result

vars == << now, config, markets, wallet, vault, yes_acct, no_acct, hist, last >>

Call(op, who, m, yes, amount, err, out, moved) ==
    [op |-> op, who |-> who, m |-> m, yes |-> yes, amount |-> amount,
     err |-> err, out |-> out, moved |-> moved, min |-> 0]

\* a trade also carries the caller's minimum (min_tokens_out, min_collateral_out)
TradeCall(op, who, m, yes, amount, min, err, out, moved) ==
    [Call(op, who, m, yes, amount, err, out, moved) EXCEPT !.min = min]

\* A failed instruction commits nothing, so sending another instruction that
\* fails right after it reaches no new state: failures are taken from
\* states whose last instruction succeeded.
Settled == last.err = "ok"
Retry(res) == IF "ok" \in DOMAIN res THEN ~res.ok ELSE res.err # "ok"

\* Initialize::initialize
initialize(protocol_fee_bps, oracle) ==
    IF ~(protocol_fee_bps <= MAX_FEE_BPS) THEN Err("FeeTooHigh")
    ELSE Ok([oracle |-> oracle,
             protocol_fee_bps |-> protocol_fee_bps,
             market_count |-> 0,
             min_liquidity |-> MIN_LIQUIDITY,
             paused |-> FALSE])

Init ==
    /\ now = 0
    /\ \E fee \in Fees : config = initialize(fee, "oracle").val
    /\ markets = << >>
    /\ wallet = [t \in Traders |-> InitialWallet]
    /\ vault = << >>
    /\ yes_acct = << >>
    /\ no_acct = << >>
    /\ hist = << >>
    /\ last = Call("initialize", "none", 0, FALSE, 0, "ok", 0, 0)

\* the clock advances
Tick ==
    /\ now < MaxTime
    /\ now' = now + 1
    /\ last' = Call("tick", "none", 0, FALSE, 0, "ok", 0, 0)
    /\ UNCHANGED << config, markets, wallet, vault, yes_acct, no_acct, hist >>

(***************************************************************************)
(* instructions/market/create_market.rs                                    *)
(***************************************************************************)
NewMarket(id, creator, end_time) ==
    [id |-> id, creator |-> creator, end_time |-> end_time,
     reserves |-> 0, yes_supply |-> 0, no_supply |-> 0,
     status |-> "Active", outcome |-> "Undetermined",
     mints |-> FALSE, vaults |-> FALSE]

create_market_state(cfg, t, creator, question_len, end_time) ==
    IF cfg.paused THEN Err("ProtocolPaused")
    ELSE IF ~WLess(WFromNat(t), end_time) THEN Err("InvalidEndTime")
    ELSE IF ~(question_len <= MAX_QUESTION_LEN) THEN Err("QuestionTooLong")
    ELSE Ok(NewMarket(cfg.market_count, creator, end_time))

NoHist == [fundings |-> 0, trades |-> 0, resolved_reserves |-> 0, paid |-> 0,
           redeems |-> 0, only_redeems |-> FALSE]

\* create_market_state without the increment of market_count
CreateMarketState_keep_count(bound, creator, question_len, end_time) ==
    \E res \in {create_market_state(config, now, creator, question_len, end_time)} :
        /\ Retry(res) => Settled
        /\ Len(markets) < bound
        /\ last' = Call("create_market_state", creator, Len(markets) + 1, FALSE,
                        0, res.err, 0, 0)
        /\ IF res.ok
           THEN /\ markets' = Append(markets, res.val)
                /\ vault' = Append(vault, 0)
                /\ yes_acct' = Append(yes_acct, [t \in Traders |-> 0])
                /\ no_acct' = Append(no_acct, [t \in Traders |-> 0])
                /\ hist' = Append(hist, NoHist)
           ELSE UNCHANGED << markets, vault, yes_acct, no_acct, hist >>
        /\ UNCHANGED << now, wallet, config >>

\* the instruction, in a model that holds at most bound markets
CreateMarketStateWithin(bound, creator, question_len, end_time) ==
    \E res \in {create_market_state(config, now, creator, question_len, end_time)} :
        /\ Retry(res) => Settled
        /\ Len(markets) < bound
        /\ last' = Call("create_market_state", creator, Len(markets) + 1, FALSE,
                        0, res.err, 0, 0)
        /\ IF res.ok
           THEN /\ markets' = Append(markets, res.val)
                /\ config' = [config EXCEPT !.market_count = @ + 1]
                /\ vault' = Append(vault, 0)
                /\ yes_acct' = Append(yes_acct, [t \in Traders |-> 0])
                /\ no_acct' = Append(no_acct, [t \in Traders |-> 0])
                /\ hist' = Append(hist, NoHist)
           ELSE UNCHANGED << markets, config, vault, yes_acct, no_acct, hist >>
        /\ UNCHANGED << now, wallet >>

CreateMarketState(creator, question_len, end_time) ==
    CreateMarketStateWithin(MaxMarkets, creator, question_len, end_time)

create_market_mints(mk, creator) ==
    IF ~(mk.creator = creator) THEN Err("ConstraintRaw")
    ELSE IF mk.mints THEN Err("ConstraintRaw")
    ELSE Ok([mk EXCEPT !.mints = TRUE])

CreateMarketMints(m, creator) ==
    \E res \in {create_market_mints(markets[m], creator)} :
        /\ Retry(res) => Settled
        /\ last' = Call("create_market_mints", creator, m, FALSE, 0, res.err, 0, 0)
        /\ markets' = IF res.ok THEN [markets EXCEPT ![m] = res.val] ELSE markets
        /\ UNCHANGED << now, config, wallet, vault, yes_acct, no_acct, hist >>

create_market_vaults(mk, creator) ==
    IF mk.vaults THEN Err("AccountAlreadyInUse")
    ELSE IF ~(mk.creator = creator) THEN Err("ConstraintRaw")
    ELSE IF ~(mk.reserves = 0) THEN Err("ConstraintRaw")
    ELSE IF ~mk.mints THEN Err("ConstraintRaw")
    ELSE Ok([mk EXCEPT !.vaults = TRUE])

CreateMarketVaults(m, creator) ==
    \E res \in {create_market_vaults(markets[m], creator)} :
        /\ Retry(res) => Settled
        /\ last' = Call("create_market_vaults", creator, m, FALSE, 0, res.err, 0, 0)
        /\ markets' = IF res.ok THEN [markets EXCEPT ![m] = res.val] ELSE markets
        /\ UNCHANGED << now, config, wallet, vault, yes_acct, no_acct, hist >>

\* integer_sqrt((reserves as u128 * reserves as u128) / 2) as u64
initial_token_amount(initial_liquidity) ==
    LET l == WFromNat(initial_liquidity)
    IN  WToNat(WDivMod(integer_sqrt(WDiv(WMul(l, l), << 2 >>)), TwoPow64).r)

\* the same amounts, computed once for the liquidities the model funds with
TokenAmounts == [l \in Liquidities \cup CurveLiquidities |-> initial_token_amount(l)]

fund_market(mk, cfg, creator, creator_collateral, initial_liquidity) ==
    IF ~mk.vaults THEN Err("AccountNotInitialized")
    ELSE IF ~(mk.creator = creator) THEN Err("ConstraintRaw")
    ELSE IF ~(mk.reserves = 0) THEN Err("ConstraintRaw")
    ELSE IF ~mk.mints THEN Err("ConstraintRaw")
    ELSE IF ~(initial_liquidity >= cfg.min_liquidity)
         THEN Err("InsufficientLiquidity")
    ELSE IF creator_collateral < initial_liquidity THEN Err("InsufficientFunds")
    ELSE LET token_amount == TokenAmounts[initial_liquidity]
         IN  Ok([market |-> [mk EXCEPT !.reserves = initial_liquidity,
                                       !.yes_supply = token_amount,
                                       !.no_supply = token_amount],
                 token_amount |-> token_amount])

FundMarket(m, creator, initial_liquidity) ==
    \E res \in {fund_market(markets[m], config, creator, wallet[creator],
                           initial_liquidity)} :
        /\ Retry(res) => Settled
        /\ res.ok => (hist[m].fundings < MaxFundings)
        /\ last' = Call("fund_market", creator, m, FALSE, initial_liquidity,
                        res.err, IF res.ok THEN res.val.token_amount ELSE 0,
                        IF res.ok THEN initial_liquidity ELSE 0)
        /\ IF res.ok
           THEN /\ markets' = [markets EXCEPT ![m] = res.val.market]
                /\ wallet' = [wallet EXCEPT ![creator] = @ - initial_liquidity]
                /\ vault' = [vault EXCEPT ![m] = @ + initial_liquidity]
                /\ yes_acct' = [yes_acct EXCEPT ![m][creator] = @ + res.val.token_amount]
                /\ no_acct' = [no_acct EXCEPT ![m][creator] = @ + res.val.token_amount]
                /\ hist' = [hist EXCEPT ![m].fundings = @ + 1,
                                     ![m].only_redeems = FALSE]
           ELSE UNCHANGED << markets, wallet, vault, yes_acct, no_acct, hist >>
        /\ UNCHANGED << now, config >>

(***************************************************************************)
(* instructions/trade.rs (and its copy in instructions/public)             *)
(* Anchor loads every account of the instruction, then checks the          *)
(* constraints, then runs the handler.  The traders' token accounts are    *)
(* taken to exist once the market's vaults do.                             *)
(***************************************************************************)
U64Fits(w) == WLess(w, TwoPow64)

\* amount.checked_mul(protocol_fee_bps).unwrap().checked_div(10000).unwrap()
\* on u64 operands given as wide numbers
protocol_fee_u64(amount, protocol_fee_bps) ==
    LET prod == WMul(amount, protocol_fee_bps)
    IN  IF ~U64Fits(prod) THEN Err("panic")
        ELSE Ok(WDiv(prod, WFromNat(BPS_DENOMINATOR)))

protocol_fee(amount, protocol_fee_bps) ==
    LET fee == protocol_fee_u64(WFromNat(amount), WFromNat(protocol_fee_bps))
    IN  IF fee.ok THEN Ok(WToNat(fee.val)) ELSE fee

TradeFail(mk, e) == [err |-> e, out |-> 0, moved |-> 0, market |-> mk]

\* buy_tokens without the check of the clock against end_time
buy_tokens_any_time(mk, cfg, t, trader_collateral, amount, buy_yes, min_tokens_out) ==
    IF ~(mk.mints /\ mk.vaults) THEN TradeFail(mk, "AccountNotInitialized")
    ELSE IF ~(mk.status = "Active") THEN TradeFail(mk, "MarketNotActive")
    ELSE IF cfg.paused THEN TradeFail(mk, "ProtocolPaused")
    ELSE LET fee == protocol_fee(amount, cfg.protocol_fee_bps) IN
    IF ~fee.ok THEN TradeFail(mk, fee.err)
    ELSE LET amount_after_fee == amount - fee.val
             target_supply == IF buy_yes THEN mk.yes_supply ELSE mk.no_supply
             other_supply == IF buy_yes THEN mk.no_supply ELSE mk.yes_supply
             tokens_out == get_tokens_to_mint(mk.reserves, target_supply,
                                              other_supply, amount_after_fee)
    IN
    IF ~tokens_out.ok THEN TradeFail(mk, tokens_out.err)
    ELSE IF ~(tokens_out.val >= min_tokens_out) THEN TradeFail(mk, "SlippageExceeded")
    ELSE IF trader_collateral < amount_after_fee THEN TradeFail(mk, "InsufficientFunds")
    ELSE [err |-> "ok", out |-> tokens_out.val, moved |-> amount_after_fee,
          market |-> IF buy_yes
                     THEN [mk EXCEPT !.reserves = @ + amount_after_fee,
                                     !.yes_supply = @ + tokens_out.val]
                     ELSE [mk EXCEPT !.reserves = @ + amount_after_fee,
                                     !.no_supply = @ + tokens_out.val]]

\* buy_tokens crediting the reserves with the amount before the fee
buy_tokens_gross(mk, cfg, t, trader_collateral, amount, buy_yes, min_tokens_out) ==
    IF ~(mk.mints /\ mk.vaults) THEN TradeFail(mk, "AccountNotInitialized")
    ELSE IF ~(mk.status = "Active") THEN TradeFail(mk, "MarketNotActive")
    ELSE IF ~I64Less(ClockI64(t), AsI64(mk.end_time)) THEN TradeFail(mk, "MarketEnded")
    ELSE IF cfg.paused THEN TradeFail(mk, "ProtocolPaused")
    ELSE LET fee == protocol_fee(amount, cfg.protocol_fee_bps) IN
    IF ~fee.ok THEN TradeFail(mk, fee.err)
    ELSE LET amount_after_fee == amount - fee.val
             target_supply == IF buy_yes THEN mk.yes_supply ELSE mk.no_supply
             other_supply == IF buy_yes THEN mk.no_supply ELSE mk.yes_supply
             tokens_out == get_tokens_to_mint(mk.reserves, target_supply,
                                              other_supply, amount_after_fee)
    IN
    IF ~tokens_out.ok THEN TradeFail(mk, tokens_out.err)
    ELSE IF ~(tokens_out.val >= min_tokens_out) THEN TradeFail(mk, "SlippageExceeded")
    ELSE IF trader_collateral < amount_after_fee THEN TradeFail(mk, "InsufficientFunds")
    ELSE [err |-> "ok", out |-> tokens_out.val, moved |-> amount_after_fee,
          market |-> IF buy_yes
                     THEN [mk EXCEPT !.reserves = @ + amount,
                                     !.yes_supply = @ + tokens_out.val]
                     ELSE [mk EXCEPT !.reserves = @ + amount,
                                     !.no_supply = @ + tokens_out.val]]

\* buy_tokens without the require on min_tokens_out
buy_tokens_no_slippage(mk, cfg, t, trader_collateral, amount, buy_yes, min_tokens_out) ==
    IF ~(mk.mints /\ mk.vaults) THEN TradeFail(mk, "AccountNotInitialized")
    ELSE IF ~(mk.status = "Active") THEN TradeFail(mk, "MarketNotActive")
    ELSE IF ~I64Less(ClockI64(t), AsI64(mk.end_time)) THEN TradeFail(mk, "MarketEnded")
    ELSE IF cfg.paused THEN TradeFail(mk, "ProtocolPaused")
    ELSE LET fee == protocol_fee(amount, cfg.protocol_fee_bps) IN
    IF ~fee.ok THEN TradeFail(mk, fee.err)
    ELSE LET amount_after_fee == amount - fee.val
             target_supply == IF buy_yes THEN mk.yes_supply ELSE mk.no_supply
             other_supply == IF buy_yes THEN mk.no_supply ELSE mk.yes_supply
             tokens_out == get_tokens_to_mint(mk.reserves, target_supply,
                                              other_supply, amount_after_fee)
    IN
    IF ~tokens_out.ok THEN TradeFail(mk, tokens_out.err)
    ELSE IF trader_collateral < amount_after_fee THEN TradeFail(mk, "InsufficientFunds")
    ELSE [err |-> "ok", out |-> tokens_out.val, moved |-> amount_after_fee,
          market |-> IF buy_yes
                     THEN [mk EXCEPT !.reserves = @ + amount_after_fee,
                                     !.yes_supply = @ + tokens_out.val]
                     ELSE [mk EXCEPT !.reserves = @ + amount_after_fee,
                                     !.no_supply = @ + tokens_out.val]]

\* buy_tokens checking min_tokens_out only after the ledger was written
buy_tokens_late_slippage(mk, cfg, t, trader_collateral, amount, buy_yes, min_tokens_out) ==
    IF ~(mk.mints /\ mk.vaults) THEN TradeFail(mk, "AccountNotInitialized")
    ELSE IF ~(mk.status = "Active") THEN TradeFail(mk, "MarketNotActive")
    ELSE IF ~I64Less(ClockI64(t), AsI64(mk.end_time)) THEN TradeFail(mk, "MarketEnded")
    ELSE IF cfg.paused THEN TradeFail(mk, "ProtocolPaused")
    ELSE LET fee == protocol_fee(amount, cfg.protocol_fee_bps) IN
    IF ~fee.ok THEN TradeFail(mk, fee.err)
    ELSE LET amount_after_fee == amount - fee.val
             target_supply == IF buy_yes THEN mk.yes_supply ELSE mk.no_supply
             other_supply == IF buy_yes THEN mk.no_supply ELSE mk.yes_supply
             tokens_out == get_tokens_to_mint(mk.reserves, target_supply,
                                              other_supply, amount_after_fee)
    IN
    IF ~tokens_out.ok THEN TradeFail(mk, tokens_out.err)
    ELSE IF ~(tokens_out.val >= min_tokens_out) THEN
        [TradeFail(mk, "SlippageExceeded") EXCEPT !.market =
             IF buy_yes
                             THEN [mk EXCEPT !.reserves = @ + amount_after_fee,
                                             !.yes_supply = @ + tokens_out.val]
                             ELSE [mk EXCEPT !.reserves = @ + amount_after_fee,
                                             !.no_supply = @ + tokens_out.val]]
    ELSE IF trader_collateral < amount_after_fee THEN TradeFail(mk, "InsufficientFunds")
    ELSE [err |-> "ok", out |-> tokens_out.val, moved |-> amount_after_fee,
          market |-> IF buy_yes
                     THEN [mk EXCEPT !.reserves = @ + amount_after_fee,
                                     !.yes_supply = @ + tokens_out.val]
                     ELSE [mk EXCEPT !.reserves = @ + amount_after_fee,
                                     !.no_supply = @ + tokens_out.val]]

buy_tokens(mk, cfg, t, trader_collateral, amount, buy_yes, min_tokens_out) ==
    IF ~(mk.mints /\ mk.vaults) THEN TradeFail(mk, "AccountNotInitialized")
    ELSE IF ~(mk.status = "Active") THEN TradeFail(mk, "MarketNotActive")
    ELSE IF ~I64Less(ClockI64(t), AsI64(mk.end_time)) THEN TradeFail(mk, "MarketEnded")
    ELSE IF cfg.paused THEN TradeFail(mk, "ProtocolPaused")
    ELSE LET fee == protocol_fee(amount, cfg.protocol_fee_bps) IN
    IF ~fee.ok THEN TradeFail(mk, fee.err)
    ELSE LET amount_after_fee == amount - fee.val
             target_supply == IF buy_yes THEN mk.yes_supply ELSE mk.no_supply
             other_supply == IF buy_yes THEN mk.no_supply ELSE mk.yes_supply
             tokens_out == get_tokens_to_mint(mk.reserves, target_supply,
                                              other_supply, amount_after_fee)
    IN
    IF ~tokens_out.ok THEN TradeFail(mk, tokens_out.err)
    ELSE IF ~(tokens_out.val >= min_tokens_out) THEN TradeFail(mk, "SlippageExceeded")
    ELSE IF trader_collateral < amount_after_fee THEN TradeFail(mk, "InsufficientFunds")
    ELSE [err |-> "ok", out |-> tokens_out.val, moved |-> amount_after_fee,
          market |-> IF buy_yes
                     THEN [mk EXCEPT !.reserves = @ + amount_after_fee,
                                     !.yes_supply = @ + tokens_out.val]
                     ELSE [mk EXCEPT !.reserves = @ + amount_after_fee,
                                     !.no_supply = @ + tokens_out.val]]

\* sell_tokens taking only the post-fee payout off the reserves
sell_tokens_net_reserves(mk, cfg, t, trader_tokens, vault_amount, amount, sell_yes, min_collateral_out) ==
    IF ~(mk.mints /\ mk.vaults) THEN TradeFail(mk, "AccountNotInitialized")
    ELSE IF ~(mk.status = "Active") THEN TradeFail(mk, "MarketNotActive")
    ELSE IF ~I64Less(ClockI64(t), AsI64(mk.end_time)) THEN TradeFail(mk, "MarketEnded")
    ELSE IF cfg.paused THEN TradeFail(mk, "ProtocolPaused")
    ELSE LET target_supply == IF sell_yes THEN mk.yes_supply ELSE mk.no_supply
             other_supply == IF sell_yes THEN mk.no_supply ELSE mk.yes_supply
             collateral_out == get_reserve_to_release(mk.reserves, target_supply,
                                                      other_supply, amount)
    IN
    IF ~collateral_out.ok THEN TradeFail(mk, collateral_out.err)
    ELSE LET fee == protocol_fee(collateral_out.val, cfg.protocol_fee_bps) IN
    IF ~fee.ok THEN TradeFail(mk, fee.err)
    ELSE LET collateral_after_fee == collateral_out.val - fee.val IN
    IF ~(collateral_after_fee >= min_collateral_out)
    THEN TradeFail(mk, "SlippageExceeded")
    ELSE IF trader_tokens < amount THEN TradeFail(mk, "InsufficientFunds")
    ELSE IF vault_amount < collateral_after_fee THEN TradeFail(mk, "InsufficientFunds")
    ELSE IF mk.reserves < collateral_out.val THEN TradeFail(mk, "panic")
    ELSE [err |-> "ok", out |-> collateral_after_fee, moved |-> collateral_out.val,
          market |-> IF sell_yes
                     THEN [mk EXCEPT !.reserves = @ - collateral_after_fee,
                                     !.yes_supply = @ - amount]
                     ELSE [mk EXCEPT !.reserves = @ - collateral_after_fee,
                                     !.no_supply = @ - amount]]

sell_tokens(mk, cfg, t, trader_tokens, vault_amount, amount, sell_yes, min_collateral_out) ==
    IF ~(mk.mints /\ mk.vaults) THEN TradeFail(mk, "AccountNotInitialized")
    ELSE IF ~(mk.status = "Active") THEN TradeFail(mk, "MarketNotActive")
    ELSE IF ~I64Less(ClockI64(t), AsI64(mk.end_time)) THEN TradeFail(mk, "MarketEnded")
    ELSE IF cfg.paused THEN TradeFail(mk, "ProtocolPaused")
    ELSE LET target_supply == IF sell_yes THEN mk.yes_supply ELSE mk.no_supply
             other_supply == IF sell_yes THEN mk.no_supply ELSE mk.yes_supply
             collateral_out == get_reserve_to_release(mk.reserves, target_supply,
                                                      other_supply, amount)
    IN
    IF ~collateral_out.ok THEN TradeFail(mk, collateral_out.err)
    ELSE LET fee == protocol_fee(collateral_out.val, cfg.protocol_fee_bps) IN
    IF ~fee.ok THEN TradeFail(mk, fee.err)
    ELSE LET collateral_after_fee == collateral_out.val - fee.val IN
    IF ~(collateral_after_fee >= min_collateral_out)
    THEN TradeFail(mk, "SlippageExceeded")
    ELSE IF trader_tokens < amount THEN TradeFail(mk, "InsufficientFunds")
    ELSE IF vault_amount < collateral_after_fee THEN TradeFail(mk, "InsufficientFunds")
    ELSE IF mk.reserves < collateral_out.val THEN TradeFail(mk, "panic")
    ELSE [err |-> "ok", out |-> collateral_after_fee, moved |-> collateral_out.val,
          market |-> IF sell_yes
                     THEN [mk EXCEPT !.reserves = @ - collateral_out.val,
                                     !.yes_supply = @ - amount]
                     ELSE [mk EXCEPT !.reserves = @ - collateral_out.val,
                                     !.no_supply = @ - amount]]

\* buy_tokens handed the account of the first market whatever market is named
Buy_first_ledger(m, trader, amount, buy_yes, min_tokens_out) ==
    \E res \in {buy_tokens(markets[1], config, now, wallet[trader], amount,
                          buy_yes, min_tokens_out)} :
        /\ Retry(res) => Settled
        /\ (res.err = "ok") => (hist[m].trades < MaxTrades)
        /\ last' = TradeCall("buy_tokens", trader, m, buy_yes, amount,
                             min_tokens_out, res.err, res.out, res.moved)
        /\ markets' = [markets EXCEPT ![1] = res.market]
        /\ wallet' = [wallet EXCEPT ![trader] = @ - res.moved]
        /\ vault' = [vault EXCEPT ![m] = @ + res.moved]
        /\ yes_acct' = IF buy_yes THEN [yes_acct EXCEPT ![m][trader] = @ + res.out]
                       ELSE yes_acct
        /\ no_acct' = IF buy_yes THEN no_acct
                      ELSE [no_acct EXCEPT ![m][trader] = @ + res.out]
        /\ hist' = IF res.err = "ok" THEN [hist EXCEPT ![m].trades = @ + 1] ELSE hist
        /\ UNCHANGED << now, config >>

Buy(m, trader, amount, buy_yes, min_tokens_out) ==
    \E res \in {buy_tokens(markets[m], config, now, wallet[trader], amount,
                          buy_yes, min_tokens_out)} :
        /\ Retry(res) => Settled
        /\ (res.err = "ok") => (hist[m].trades < MaxTrades)
        /\ last' = TradeCall("buy_tokens", trader, m, buy_yes, amount,
                             min_tokens_out, res.err, res.out, res.moved)
        /\ markets' = [markets EXCEPT ![m] = res.market]
        /\ wallet' = [wallet EXCEPT ![trader] = @ - res.moved]
        /\ vault' = [vault EXCEPT ![m] = @ + res.moved]
        /\ yes_acct' = IF buy_yes THEN [yes_acct EXCEPT ![m][trader] = @ + res.out]
                       ELSE yes_acct
        /\ no_acct' = IF buy_yes THEN no_acct
                      ELSE [no_acct EXCEPT ![m][trader] = @ + res.out]
        /\ hist' = IF res.err = "ok" THEN [hist EXCEPT ![m].trades = @ + 1] ELSE hist
        /\ UNCHANGED << now, config >>

Sell(m, trader, amount, sell_yes, min_collateral_out) ==
    LET held == IF sell_yes THEN yes_acct[m][trader] ELSE no_acct[m][trader] IN
    \E res \in {sell_tokens(markets[m], config, now, held, vault[m], amount,
                           sell_yes, min_collateral_out)} :
    LET burned == IF res.err = "ok" THEN amount ELSE 0 IN
        /\ Retry(res) => Settled
        /\ (res.err = "ok") => (hist[m].trades < MaxTrades)
        /\ last' = TradeCall("sell_tokens", trader, m, sell_yes, amount,
                             min_collateral_out, res.err, res.out, res.moved)
        /\ markets' = [markets EXCEPT ![m] = res.market]
        /\ wallet' = [wallet EXCEPT ![trader] = @ + res.out]
        /\ vault' = [vault EXCEPT ![m] = @ - res.out]
        /\ yes_acct' = IF sell_yes THEN [yes_acct EXCEPT ![m][trader] = @ - burned]
                       ELSE yes_acct
        /\ no_acct' = IF sell_yes THEN no_acct
                      ELSE [no_acct EXCEPT ![m][trader] = @ - burned]
        /\ hist' = IF res.err = "ok" THEN [hist EXCEPT ![m].trades = @ + 1] ELSE hist
        /\ UNCHANGED << now, config >>

(***************************************************************************)
(* instructions/market/resolve.rs                                          *)
(***************************************************************************)
\* resolve_market without the constraint on the market's status
resolve_market_any_status(mk, cfg, t, oracle, yes_wins) ==
    IF ~(oracle = cfg.oracle) THEN [err |-> "Unauthorized", market |-> mk]
    ELSE IF I64Less(ClockI64(t), AsI64(mk.end_time))
         THEN [err |-> "MarketNotEnded", market |-> mk]
    ELSE [err |-> "ok",
          market |-> [mk EXCEPT !.outcome = IF yes_wins THEN "Yes" ELSE "No",
                                !.status = "Resolved"]]

\* resolve_market with the oracle checked after the market's status
resolve_market_status_first(mk, cfg, t, oracle, yes_wins) ==
    IF ~(mk.status = "Active" \/ mk.status = "Ended")
    THEN [err |-> "CannotResolve", market |-> mk]
    ELSE IF ~(oracle = cfg.oracle) THEN [err |-> "Unauthorized", market |-> mk]
    ELSE IF I64Less(ClockI64(t), AsI64(mk.end_time))
         THEN [err |-> "MarketNotEnded", market |-> mk]
    ELSE [err |-> "ok",
          market |-> [mk EXCEPT !.outcome = IF yes_wins THEN "Yes" ELSE "No",
                                !.status = "Resolved"]]

\* resolve_market with the outcomes the wrong way round
resolve_market_swapped(mk, cfg, t, oracle, yes_wins) ==
    IF ~(oracle = cfg.oracle) THEN [err |-> "Unauthorized", market |-> mk]
    ELSE IF ~(mk.status = "Active" \/ mk.status = "Ended")
         THEN [err |-> "CannotResolve", market |-> mk]
    ELSE IF I64Less(ClockI64(t), AsI64(mk.end_time))
         THEN [err |-> "MarketNotEnded", market |-> mk]
    ELSE [err |-> "ok",
          market |-> [mk EXCEPT !.outcome = IF yes_wins THEN "No" ELSE "Yes",
                                !.status = "Resolved"]]

\* resolve_market that marks the market Resolved without writing the outcome
resolve_market_status_only(mk, cfg, t, oracle, yes_wins) ==
    IF ~(oracle = cfg.oracle) THEN [err |-> "Unauthorized", market |-> mk]
    ELSE IF ~(mk.status = "Active" \/ mk.status = "Ended")
         THEN [err |-> "CannotResolve", market |-> mk]
    ELSE IF I64Less(ClockI64(t), AsI64(mk.end_time))
         THEN [err |-> "MarketNotEnded", market |-> mk]
    ELSE [err |-> "ok", market |-> [mk EXCEPT !.status = "Resolved"]]

resolve_market(mk, cfg, t, oracle, yes_wins) ==
    IF ~(oracle = cfg.oracle) THEN [err |-> "Unauthorized", market |-> mk]
    ELSE IF ~(mk.status = "Active" \/ mk.status = "Ended")
         THEN [err |-> "CannotResolve", market |-> mk]
    ELSE IF I64Less(ClockI64(t), AsI64(mk.end_time))
         THEN [err |-> "MarketNotEnded", market |-> mk]
    ELSE [err |-> "ok",
          market |-> [mk EXCEPT !.outcome = IF yes_wins THEN "Yes" ELSE "No",
                                !.status = "Resolved"]]

Resolve(m, oracle, yes_wins) ==
    \E res \in {resolve_market(markets[m], config, now, oracle, yes_wins)} :
        /\ Retry(res) => Settled
        /\ last' = Call("resolve_market", oracle, m, yes_wins, 0, res.err, 0, 0)
        /\ markets' = [markets EXCEPT ![m] = res.market]
        /\ hist' = IF res.err = "ok"
                   THEN [hist EXCEPT ![m].resolved_reserves = markets[m].reserves,
                                     ![m].paid = 0,
                                     ![m].redeems = 0,
                                     ![m].only_redeems = TRUE]
                   ELSE hist
        /\ UNCHANGED << now, config, wallet, vault, yes_acct, no_acct >>

(***************************************************************************)
(* instructions/redeem.rs (and its copy in instructions/public)            *)
(***************************************************************************)
RedeemFail(mk, e) == [err |-> e, out |-> 0, burned |-> 0, market |-> mk]

\* the division done before the multiplication
proportional_share_div_first(user_balance, reserves, total_supply) ==
    (user_balance \div total_supply) * reserves

\* (user_balance as u128 * reserves as u128 / total_supply as u128) as u64
proportional_share(user_balance, reserves, total_supply) ==
    LET q == WDiv(WMul(WFromNat(user_balance), WFromNat(reserves)),
                  WFromNat(total_supply))
    IN  WToNat(WDivMod(q, TwoPow64).r)

\* redeem that forgets to take the payout off the ledger's reserves
redeem_keep_reserves(mk, user_yes_amount, user_no_amount, vault_amount) ==
    IF ~(mk.mints /\ mk.vaults) THEN RedeemFail(mk, "AccountNotInitialized")
    ELSE IF ~(mk.status = "Resolved") THEN RedeemFail(mk, "NotResolved")
    ELSE IF mk.outcome = "Undetermined" THEN RedeemFail(mk, "NotResolved")
    ELSE LET user_balance == IF mk.outcome = "Yes" THEN user_yes_amount
                             ELSE user_no_amount
             total_supply == IF mk.outcome = "Yes" THEN mk.yes_supply
                             ELSE mk.no_supply
    IN
    IF ~(user_balance > 0) THEN RedeemFail(mk, "NoWinningTokens")
    ELSE IF total_supply = 0 THEN RedeemFail(mk, "panic")
    ELSE LET collateral_to_receive ==
                 proportional_share(user_balance, mk.reserves, total_supply)
    IN
    IF vault_amount < collateral_to_receive THEN RedeemFail(mk, "InsufficientFunds")
    ELSE IF mk.reserves < collateral_to_receive THEN RedeemFail(mk, "panic")
    ELSE [err |-> "ok", out |-> collateral_to_receive, burned |-> user_balance,
          market |-> mk]

\* redeem with neither the status constraint nor the Undetermined arm
redeem_any_status(mk, user_yes_amount, user_no_amount, vault_amount) ==
    IF ~(mk.mints /\ mk.vaults) THEN RedeemFail(mk, "AccountNotInitialized")
    ELSE LET user_balance == IF mk.outcome = "Yes" THEN user_yes_amount
                             ELSE user_no_amount
             total_supply == IF mk.outcome = "Yes" THEN mk.yes_supply
                             ELSE mk.no_supply
    IN
    IF ~(user_balance > 0) THEN RedeemFail(mk, "NoWinningTokens")
    ELSE IF total_supply = 0 THEN RedeemFail(mk, "panic")
    ELSE LET collateral_to_receive ==
                 proportional_share(user_balance, mk.reserves, total_supply)
    IN
    IF vault_amount < collateral_to_receive THEN RedeemFail(mk, "InsufficientFunds")
    ELSE IF mk.reserves < collateral_to_receive THEN RedeemFail(mk, "panic")
    ELSE [err |-> "ok", out |-> collateral_to_receive, burned |-> user_balance,
          market |-> [mk EXCEPT !.reserves = @ - collateral_to_receive]]

\* redeem that takes the holder's balance of the losing side
redeem_losing_side(mk, user_yes_amount, user_no_amount, vault_amount) ==
    IF ~(mk.mints /\ mk.vaults) THEN RedeemFail(mk, "AccountNotInitialized")
    ELSE IF ~(mk.status = "Resolved") THEN RedeemFail(mk, "NotResolved")
    ELSE IF mk.outcome = "Undetermined" THEN RedeemFail(mk, "NotResolved")
    ELSE LET user_balance == IF mk.outcome = "Yes" THEN user_no_amount
                             ELSE user_yes_amount
             total_supply == IF mk.outcome = "Yes" THEN mk.yes_supply
                             ELSE mk.no_supply
    IN
    IF ~(user_balance > 0) THEN RedeemFail(mk, "NoWinningTokens")
    ELSE IF total_supply = 0 THEN RedeemFail(mk, "panic")
    ELSE LET collateral_to_receive ==
                 proportional_share(user_balance, mk.reserves, total_supply)
    IN
    IF vault_amount < collateral_to_receive THEN RedeemFail(mk, "InsufficientFunds")
    ELSE IF mk.reserves < collateral_to_receive THEN RedeemFail(mk, "panic")
    ELSE [err |-> "ok", out |-> collateral_to_receive, burned |-> user_balance,
          market |-> [mk EXCEPT !.reserves = @ - collateral_to_receive]]

redeem(mk, user_yes_amount, user_no_amount, vault_amount) ==
    IF ~(mk.mints /\ mk.vaults) THEN RedeemFail(mk, "AccountNotInitialized")
    ELSE IF ~(mk.status = "Resolved") THEN RedeemFail(mk, "NotResolved")
    ELSE IF mk.outcome = "Undetermined" THEN RedeemFail(mk, "NotResolved")
    ELSE LET user_balance == IF mk.outcome = "Yes" THEN user_yes_amount
                             ELSE user_no_amount
             total_supply == IF mk.outcome = "Yes" THEN mk.yes_supply
                             ELSE mk.no_supply
    IN
    IF ~(user_balance > 0) THEN RedeemFail(mk, "NoWinningTokens")
    ELSE IF total_supply = 0 THEN RedeemFail(mk, "panic")
    ELSE LET collateral_to_receive ==
                 proportional_share(user_balance, mk.reserves, total_supply)
    IN
    IF vault_amount < collateral_to_receive THEN RedeemFail(mk, "InsufficientFunds")
    ELSE IF mk.reserves < collateral_to_receive THEN RedeemFail(mk, "panic")
    ELSE [err |-> "ok", out |-> collateral_to_receive, burned |-> user_balance,
          market |-> [mk EXCEPT !.reserves = @ - collateral_to_receive]]

Redeem(m, user) ==
    \E res \in {redeem(markets[m], yes_acct[m][user], no_acct[m][user], vault[m])} :
    LET yes_won == markets[m].outcome = "Yes" IN
        /\ Retry(res) => Settled
        /\ last' = Call("redeem", user, m, yes_won, res.burned, res.err,
                        res.out, res.out)
        /\ markets' = [markets EXCEPT ![m] = res.market]
        /\ wallet' = [wallet EXCEPT ![user] = @ + res.out]
        /\ vault' = [vault EXCEPT ![m] = @ - res.out]
        /\ yes_acct' = IF yes_won THEN [yes_acct EXCEPT ![m][user] = @ - res.burned]
                       ELSE yes_acct
        /\ no_acct' = IF yes_won THEN no_acct
                      ELSE [no_acct EXCEPT ![m][user] = @ - res.burned]
        /\ hist' = IF res.err = "ok"
                   THEN [hist EXCEPT ![m].paid = @ + res.out,
                                     ![m].redeems = @ + 1]
                   ELSE hist
        /\ UNCHANGED << now, config >>

(***************************************************************************)
(* The program: any signer may send any instruction at any time.           *)
(***************************************************************************)
Markets == DOMAIN markets

SellInputs ==
    SellAmounts \cup (IF last.op = "buy_tokens" /\ last.err = "ok"
                      THEN {last.out} ELSE {})

Next ==
    \/ Tick
    \/ \E c \in Creators, q \in QuestionLens, e \in EndTimes :
           CreateMarketState(c, q, e)
    \/ \E m \in Markets, c \in Traders : CreateMarketMints(m, c)
    \/ \E m \in Markets, c \in Traders : CreateMarketVaults(m, c)
    \/ \E m \in Markets, c \in Traders, l \in Liquidities : FundMarket(m, c, l)
    \/ \E m \in Markets, t \in Traders, a \in BuyAmounts, y \in BOOLEAN,
          mn \in MinOuts : Buy(m, t, a, y, mn)
    \/ \E m \in Markets, t \in Traders, a \in SellInputs, y \in BOOLEAN,
          mn \in MinOuts : Sell(m, t, a, y, mn)
    \/ \E m \in Markets, o \in Signers, y \in BOOLEAN : Resolve(m, o, y)
    \/ \E m \in Markets, u \in Traders : Redeem(m, u)

Spec == Init /\ [][Next]_vars

(***************************************************************************)
(* The pause flag.  state/config.rs declares Config.paused and initialize  *)
(* clears it; the instruction that sets it is not part of the sources, so  *)
(* it is modelled as the specification describes it: a global circuit      *)
(* breaker, a mutable field of the singleton configuration.                *)
(***************************************************************************)
SetPaused(paused) ==
    /\ Settled
    /\ paused # config.paused
    /\ config' = [config EXCEPT !.paused = paused]
    /\ last' = Call("set_paused", "none", 0, paused, 0, "ok", 0, 0)
    /\ UNCHANGED << now, markets, wallet, vault, yes_acct, no_acct, hist >>

\* the instructions of Next, the trades without a minimum and the creator
\* funding with the least liquidity accepted, and the pause switch
PauseNext ==
    \/ Tick
    \/ \E c \in Creators, q \in QuestionLens, e \in EndTimes :
           CreateMarketState(c, q, e)
    \/ \E m \in Markets, c \in Creators : CreateMarketMints(m, c)
    \/ \E m \in Markets, c \in Creators : CreateMarketVaults(m, c)
    \/ \E m \in Markets, c \in Creators : FundMarket(m, c, MIN_LIQUIDITY)
    \/ \E m \in Markets, t \in Traders, a \in BuyAmounts, y \in BOOLEAN :
           Buy(m, t, a, y, 0)
    \/ \E m \in Markets, t \in Traders, a \in SellInputs, y \in BOOLEAN :
           Sell(m, t, a, y, 0)
    \/ \E m \in Markets, y \in BOOLEAN : Resolve(m, config.oracle, y)
    \/ \E m \in Markets, u \in Traders : Redeem(m, u)
    \/ \E p \in BOOLEAN : SetPaused(p)

PauseSpec == Init /\ [][PauseNext]_vars

(***************************************************************************)
(* Markets seeded with a liquidity that is not a multiple of the scale,    *)
(* and traded without a minimum before their end.                          *)
(***************************************************************************)
CurveNext ==
    \/ \E c \in Creators, e \in EndTimes :
           CreateMarketState(c, MAX_QUESTION_LEN, e)
    \/ \E m \in Markets, c \in Creators : CreateMarketMints(m, c)
    \/ \E m \in Markets, c \in Creators : CreateMarketVaults(m, c)
    \/ \E m \in Markets, c \in Creators, l \in CurveLiquidities :
           FundMarket(m, c, l)
    \/ \E m \in Markets, t \in Traders, a \in BuyAmounts, y \in BOOLEAN :
           Buy(m, t, a, y, 0)
    \/ \E m \in Markets, t \in Traders, a \in SellInputs, y \in BOOLEAN :
           Sell(m, t, a, y, 0)

CurveSpec == Init /\ [][CurveNext]_vars

(***************************************************************************)
(* Settlement: one market whose creator sells the funded position back,    *)
(* funds again, and holders redeem after the oracle has resolved.  The     *)
(* clock, the oracle and every holder keep taking their steps.             *)
(***************************************************************************)
DrainAmounts == {707105}

SettleResolve == \E m \in Markets, y \in BOOLEAN : Resolve(m, config.oracle, y)

SettleRedeem(u) == \E m \in Markets : Redeem(m, u)

SettleNext ==
    \/ Tick
    \/ \E c \in Creators : CreateMarketState(c, MAX_QUESTION_LEN, WFromNat(MaxTime))
    \/ \E m \in Markets, c \in Creators : CreateMarketMints(m, c)
    \/ \E m \in Markets, c \in Creators : CreateMarketVaults(m, c)
    \/ \E m \in Markets, c \in Creators : FundMarket(m, c, MIN_LIQUIDITY)
    \/ \E m \in Markets, t \in Traders, a \in BuyAmounts, y \in BOOLEAN :
           Buy(m, t, a, y, 0)
    \/ \E m \in Markets, t \in Traders, a \in DrainAmounts, y \in BOOLEAN :
           Sell(m, t, a, y, 0)
    \/ SettleResolve
    \/ \E u \in Traders : SettleRedeem(u)

SettleSpec ==
    /\ Init
    /\ [][SettleNext]_vars
    /\ WF_vars(Tick)
    /\ WF_vars(SettleResolve)
    /\ \A u \in Traders : WF_vars(SettleRedeem(u))

(***************************************************************************)
(* Several markets side by side: each trader creates one market and funds  *)
(* it with the minimum liquidity; there is no fee.                         *)
(***************************************************************************)
MaxRegistry == 2

RegistryEndTimes == {<< >>, WFromNat(1)}

RegistryNext ==
    \/ now = 0 /\ Tick
    \/ \E c \in Traders \ {markets[m].creator : m \in Markets},
          q \in QuestionLens, e \in RegistryEndTimes :
           CreateMarketStateWithin(MaxRegistry, c, q, e)
    \/ \E m \in Markets : CreateMarketMints(m, markets[m].creator)
    \/ \E m \in Markets : CreateMarketVaults(m, markets[m].creator)
    \/ \E m \in Markets : FundMarket(m, markets[m].creator, MIN_LIQUIDITY)
    \/ \E m \in Markets, y \in BOOLEAN : Buy(m, "bob", 100500, y, 0)
    \/ \E m \in Markets : Sell(m, "alice", 50000, TRUE, 0)
    \/ \E m \in Markets : Resolve(m, config.oracle, TRUE)
    \/ \E m \in Markets, u \in Traders : Redeem(m, u)

RegistryInit == Init /\ config.protocol_fee_bps = 0

RegistrySpec == RegistryInit /\ [][RegistryNext]_vars

(***************************************************************************)
(* amm/bonding_curve.rs and the fee of trade.rs on the whole of their      *)
(* domains: u64 arguments, u128 intermediates, given as wide numbers.  The *)
(* operators sqrt, get_tokens_to_mint and get_reserve_to_release above are *)
(* the same code on the amounts the instructions of Next are called with.  *)
(***************************************************************************)
TwoPow128 == << 456, 211, 768, 431, 607, 374, 463, 463, 938, 920, 366, 282, 340 >>

U128Fits(w) == WLess(w, TwoPow128)

U64Max == WSub(TwoPow64, << 1 >>)

U128Max == WSub(TwoPow128, << 1 >>)

\* x as u64
AsU64(w) == WDivMod(w, TwoPow64).r

WScale == WFromNat(PRECISION_SCALE)

\* passes of the loop of sqrt that are run at most; a call on a u128 needs
\* fewer than 80
MaxPasses == 128

\* one pass of while z < y { y = z; z = (x / z + z) / 2; } on the loop's
\* variables: the exit once z >= y, the panic if x / z + z leaves u128
sqrt_u128_pass(x, s) ==
    IF s.done THEN s
    ELSE IF ~WLess(s.z, s.y) THEN [s EXCEPT !.done = TRUE]
    ELSE LET sum == WAdd(WDiv(x, s.z), s.z)
         IN  IF ~U128Fits(sum) THEN [s EXCEPT !.done = TRUE, !.ok = FALSE]
             ELSE [s EXCEPT !.z = WDiv(sum, << 2 >>), !.y = s.z]

\* n passes in a row, the first half of them before the second
RECURSIVE sqrt_u128_passes(_, _, _)
sqrt_u128_passes(x, s, n) ==
    IF s.done \/ n = 0 THEN s
    ELSE IF n = 1 THEN sqrt_u128_pass(x, s)
    ELSE CHOOSE res \in
             {sqrt_u128_passes(x, half, n - n \div 2) :
                  half \in {sqrt_u128_passes(x, s, n \div 2)}} : TRUE

\* while z < y { y = z; z = (x / z + z) / 2; }
sqrt_u128_loop(x, z, y) ==
    LET s == sqrt_u128_passes(x, [z |-> z, y |-> y, done |-> FALSE, ok |-> TRUE],
                              MaxPasses)
    IN  IF ~s.done THEN Err("unfinished")
        ELSE IF ~s.ok THEN Err("panic")
        ELSE Ok(s.y)

\* sqrt on u128.  x + 1 does not fit for x = u128::MAX: a build with overflow
\* checks panics on the addition; a build without them wraps x + 1 to 0, so
\* that z = 0 and the first x / z panics.  Either way the call panics.
sqrt_u128(x) ==
    IF x = << >> THEN Ok(<< >>)
    ELSE IF ~U128Fits(WAdd(x, << 1 >>)) THEN Err("panic")
    ELSE sqrt_u128_loop(x, WDiv(WAdd(x, << 1 >>), << 2 >>), x)

\* get_tokens_to_mint up to scaled_result, a u128
mint_scaled_result(reserves, target_supply, other_supply, collateral_in) ==
    IF ~(reserves # << >>) THEN Err("InvalidReserves")
    ELSE IF ~(collateral_in # << >>) THEN Err("InvalidReserves")
    ELSE LET r == WDiv(reserves, WScale)
             a == WDiv(target_supply, WScale)
             b == WDiv(other_supply, WScale)
             l == WDiv(collateral_in, WScale)
             new_r == WAdd(r, l)
             new_r_squared == WMul(new_r, new_r)
             b_squared == WMul(b, b)
    IN
    IF ~U128Fits(new_r) THEN Err("Overflow")
    ELSE IF ~U128Fits(new_r_squared) THEN Err("Overflow")
    ELSE IF ~U128Fits(b_squared) THEN Err("Overflow")
    ELSE IF WLess(new_r_squared, b_squared) THEN Err("InvalidSupplies")
    ELSE LET new_a == sqrt_u128(WSub(new_r_squared, b_squared)) IN
    IF ~new_a.ok THEN new_a
    ELSE IF ~WLess(a, new_a.val) THEN Err("NoTokensToMint")
    ELSE LET scaled_result == WMul(WSub(new_a.val, a), WScale) IN
    IF ~U128Fits(scaled_result) THEN Err("Overflow")
    ELSE Ok(scaled_result)

\* Ok(scaled_result as u64)
get_tokens_to_mint_u64(reserves, target_supply, other_supply, collateral_in) ==
    LET scaled_result == mint_scaled_result(reserves, target_supply, other_supply, collateral_in)
    IN  IF scaled_result.ok THEN Ok(AsU64(scaled_result.val)) ELSE scaled_result

\* get_reserve_to_release with r - new_r checked instead of saturating
release_scaled_result_checked_sub(reserves, target_supply, other_supply, tokens_to_burn) ==
    IF ~(tokens_to_burn # << >>) THEN Err("InvalidReserves")
    ELSE IF ~WLeq(tokens_to_burn, target_supply) THEN Err("InsufficientTokens")
    ELSE LET r == WDiv(reserves, WScale)
             a == WDiv(target_supply, WScale)
             b == WDiv(other_supply, WScale)
             burn == WDiv(tokens_to_burn, WScale)
    IN
    IF WLess(a, burn) THEN Err("Overflow")
    ELSE LET new_a == WSub(a, burn)
             new_r_squared == WAdd(WMul(new_a, new_a), WMul(b, b))
    IN
    IF ~U128Fits(new_r_squared) THEN Err("Overflow")
    ELSE LET new_r == sqrt_u128(new_r_squared) IN
    IF ~new_r.ok THEN new_r
    ELSE IF WLess(r, new_r.val) THEN Err("Overflow")
    ELSE Ok(WMul(WSub(r, new_r.val), WScale))

\* get_reserve_to_release up to scaled_result, a u128
release_scaled_result(reserves, target_supply, other_supply, tokens_to_burn) ==
    IF ~(tokens_to_burn # << >>) THEN Err("InvalidReserves")
    ELSE IF ~WLeq(tokens_to_burn, target_supply) THEN Err("InsufficientTokens")
    ELSE LET r == WDiv(reserves, WScale)
             a == WDiv(target_supply, WScale)
             b == WDiv(other_supply, WScale)
             burn == WDiv(tokens_to_burn, WScale)
    IN
    IF WLess(a, burn) THEN Err("Overflow")
    ELSE LET new_a == WSub(a, burn)
             new_a_squared == WMul(new_a, new_a)
             b_squared == WMul(b, b)
             new_r_squared == WAdd(new_a_squared, b_squared)
    IN
    IF ~U128Fits(new_a_squared) THEN Err("Overflow")
    ELSE IF ~U128Fits(b_squared) THEN Err("Overflow")
    ELSE IF ~U128Fits(new_r_squared) THEN Err("Overflow")
    ELSE LET new_r == sqrt_u128(new_r_squared) IN
    IF ~new_r.ok THEN new_r
    ELSE LET collateral_out == IF WLess(new_r.val, r) THEN WSub(r, new_r.val)
                               ELSE << >>
             scaled_result == WMul(collateral_out, WScale)
    IN
    IF ~U128Fits(scaled_result) THEN Err("Overflow")
    ELSE Ok(scaled_result)

\* Ok(scaled_result as u64)
get_reserve_to_release_u64(reserves, target_supply, other_supply, tokens_to_burn) ==
    LET scaled_result == release_scaled_result(reserves, target_supply, other_supply, tokens_to_burn)
    IN  IF scaled_result.ok THEN Ok(AsU64(scaled_result.val)) ELSE scaled_result

\* get_price on u64 arguments
get_price_u64(reserves, target_supply, other_supply) ==
    IF reserves = << >> THEN Ok(WFromNat(5000))
    ELSE LET r == WDiv(reserves, WScale)
             a == WDiv(target_supply, WScale)
    IN
    IF r = << >> THEN Ok(WFromNat(5000))
    ELSE LET product == WMul(a, WFromNat(BPS_DENOMINATOR)) IN
    IF ~U128Fits(product) THEN Err("Overflow")
    ELSE Ok(AsU64(WDiv(product, r)))

\* get_prices on u64 arguments: (yes_price, no_price), or the first error
get_prices_u64(reserves, yes_supply, no_supply) ==
    LET yes_price == get_price_u64(reserves, yes_supply, no_supply)
        no_price == get_price_u64(reserves, no_supply, yes_supply)
    IN  IF ~yes_price.ok THEN yes_price
        ELSE IF ~no_price.ok THEN no_price
        ELSE Ok(<< yes_price.val, no_price.val >>)

\* get_prices on the amounts of a market of Next
get_prices(reserves, yes_supply, no_supply) ==
    LET prices == get_prices_u64(WFromNat(reserves), WFromNat(yes_supply), WFromNat(no_supply))
    IN  IF prices.ok THEN Ok(<< WToNat(prices.val[1]), WToNat(prices.val[2]) >>)
        ELSE prices

\* The arguments the functions are applied to.
MaxSmallRoot == 120

SqrtInputs ==
    {WFromNat(n) : n \in 0..MaxSmallRoot}
        \cup {WFromNat(1000000), TwoPow64, WMul(TwoPow64, TwoPow63),
              WMul(U64Max, U64Max), WSub(TwoPow128, << 2 >>), U128Max}

MintInputs ==
    {<< r, a, WFromNat(707106), l >> :
        r \in {<< >>, WFromNat(1000), WFromNat(1000000)},
        a \in {WFromNat(707106), WFromNat(2000000)},
        l \in {<< >>, WFromNat(999), WFromNat(1011), WFromNat(100500), TwoPow63, U64Max}}

ReleaseInputs ==
    {<< r, WFromNat(707106), b, t >> :
        r \in {WFromNat(1000000), U64Max},
        b \in {WFromNat(707106), U64Max},
        t \in {<< >>, WFromNat(999), WFromNat(50000), WFromNat(707106), WFromNat(707107)}}

FeeInputs ==
    {<< a, WFromNat(f) >> :
        a \in {<< >>, WFromNat(1011), WFromNat(100500), TwoPow63, U64Max},
        f \in Fees \cup {MAX_FEE_BPS}}

PriceInputs ==
    {<< r, a, WFromNat(707106) >> :
        r \in {<< >>, WFromNat(999), WFromNat(1000), WFromNat(1000000), U64Max},
        a \in {<< >>, WFromNat(707106), WFromNat(1000000), WFromNat(2000000), U64Max}}

\* the reserves of a balanced market on the curve: isqrt(2 * supply^2)
BalancedReserves(supply) == integer_sqrt(WMul(<< 2 >>, WMul(supply, supply)))

PricesInputs ==
    {<< BalancedReserves(WFromNat(n)), WFromNat(n), WFromNat(n) >> :
        n \in {0, 999, 1000, 3000, 10000, 707000, 707106, 1414213}}
        \cup {<< WFromNat(1000000), WFromNat(707000), WFromNat(707000) >>,
              << WFromNat(1000000), WFromNat(800000), WFromNat(600000) >>,
              << WFromNat(1100000), WFromNat(842000), WFromNat(707000) >>}

Pending(f, args) == [op |-> "call", f |-> f, args |-> args, res |-> Err("pending")]

Returned(l, res) == [l EXCEPT !.op = "return", !.res = res]

\* the program as initialize leaves it, and one pending call
MathInit ==
    /\ now = 0
    /\ \E fee \in Fees : config = initialize(fee, "oracle").val
    /\ markets = << >>
    /\ wallet = [t \in Traders |-> InitialWallet]
    /\ vault = << >>
    /\ yes_acct = << >>
    /\ no_acct = << >>
    /\ hist = << >>
    /\ \/ \E x \in SqrtInputs : last = Pending("sqrt", << x >>)
       \/ \E i \in MintInputs : last = Pending("get_tokens_to_mint", i)
       \/ \E i \in ReleaseInputs : last = Pending("get_reserve_to_release", i)
       \/ \E i \in FeeInputs : last = Pending("protocol_fee", i)
       \/ \E i \in PriceInputs : last = Pending("get_price", i)
       \/ \E i \in PricesInputs : last = Pending("get_prices", i)

\* the pending call of f returns res
Return(f, res) ==
    /\ last.op = "call"
    /\ last.f = f
    /\ last' = Returned(last, res)
    /\ UNCHANGED << now, config, markets, wallet, vault, yes_acct, no_acct, hist >>

ApplySqrt ==
    /\ last.f = "sqrt"
    /\ \E res \in {sqrt_u128(last.args[1])} : Return("sqrt", res)

ApplyGetTokensToMint ==
    /\ last.f = "get_tokens_to_mint"
    /\ \E res \in {get_tokens_to_mint_u64(last.args[1], last.args[2], last.args[3], last.args[4])} :
           Return("get_tokens_to_mint", res)

ApplyGetReserveToRelease ==
    /\ last.f = "get_reserve_to_release"
    /\ \E res \in {get_reserve_to_release_u64(last.args[1], last.args[2], last.args[3], last.args[4])} :
           Return("get_reserve_to_release", res)

ApplyProtocolFee ==
    /\ last.f = "protocol_fee"
    /\ \E res \in {protocol_fee_u64(last.args[1], last.args[2])} :
           Return("protocol_fee", res)

ApplyGetPrice ==
    /\ last.f = "get_price"
    /\ \E res \in {get_price_u64(last.args[1], last.args[2], last.args[3])} :
           Return("get_price", res)

ApplyGetPrices ==
    /\ last.f = "get_prices"
    /\ \E res \in {get_prices_u64(last.args[1], last.args[2], last.args[3])} :
           Return("get_prices", res)

MathNext ==
    \/ ApplySqrt
    \/ ApplyGetTokensToMint
    \/ ApplyGetReserveToRelease
    \/ ApplyProtocolFee
    \/ ApplyGetPrice
    \/ ApplyGetPrices

MathSpec == MathInit /\ [][MathNext]_vars

(***************************************************************************)
(* sqrt, one step of its loop at a time.  The source fixes no build        *)
(* profile: an addition that does not fit u128 panics in a build with      *)
(* overflow checks and wraps in a build without them, so both happen.      *)
(***************************************************************************)
AsU128(w) == WDivMod(w, TwoPow128).r

\* the values a u128 addition that came out as sum can leave: Ok(sum), or, past
\* the width, the panic of one build and the wrapped sum of the other
AddU128(sum) ==
    IF U128Fits(sum) THEN {Ok(sum)}
    ELSE {Err("attempt to add with overflow"), Ok(AsU128(sum))}

InLoop(l, z, y) == [l EXCEPT !.op = "loop", !.z = z, !.y = y]

\* the program as initialize leaves it, and one pending call of sqrt
NewtonInit ==
    /\ now = 0
    /\ \E fee \in Fees : config = initialize(fee, "oracle").val
    /\ markets = << >>
    /\ wallet = [t \in Traders |-> InitialWallet]
    /\ vault = << >>
    /\ yes_acct = << >>
    /\ no_acct = << >>
    /\ hist = << >>
    /\ \E x \in SqrtInputs :
           last = [op |-> "call", f |-> "sqrt", args |-> << x >>,
                   res |-> Err("pending"), z |-> << >>, y |-> << >>]

\* if x == 0 { return 0 }; let mut z = (x + 1) / 2; let mut y = x;
SqrtEnter ==
    /\ last.op = "call"
    /\ LET x == last.args[1] IN
       \E sum \in (IF x = << >> THEN {Ok(<< >>)} ELSE AddU128(WAdd(x, << 1 >>))) :
           last' = IF x = << >> THEN Returned(last, Ok(<< >>))
                   ELSE IF ~sum.ok THEN Returned(last, sum)
                   ELSE InLoop(last, WDiv(sum.val, << 2 >>), x)
    /\ UNCHANGED << now, config, markets, wallet, vault, yes_acct, no_acct, hist >>

\* while z < y { y = z; z = (x / z + z) / 2; }
SqrtIterate ==
    /\ last.op = "loop"
    /\ WLess(last.z, last.y)
    /\ LET x == last.args[1]
           z == last.z
       IN  IF z = << >>
           THEN last' = Returned(last, Err("attempt to divide by zero"))
           ELSE \E sum \in AddU128(WAdd(WDiv(x, z), z)) :
                    last' = IF ~sum.ok THEN Returned(last, sum)
                            ELSE InLoop(last, WDiv(sum.val, << 2 >>), z)
    /\ UNCHANGED << now, config, markets, wallet, vault, yes_acct, no_acct, hist >>

\* the loop is left with z >= y: y is returned
SqrtExit ==
    /\ last.op = "loop"
    /\ ~WLess(last.z, last.y)
    /\ last' = Returned(last, Ok(last.y))
    /\ UNCHANGED << now, config, markets, wallet, vault, yes_acct, no_acct, hist >>

NewtonNext ==
    \/ SqrtEnter
    \/ SqrtIterate
    \/ SqrtExit

\* a call that has started goes on until it returns
NewtonSpec == NewtonInit /\ [][NewtonNext]_vars /\ WF_vars(NewtonNext)


(***************************************************************************)
(* Settlement                                                              *)
(***************************************************************************)
Succeeded(op) == last.op = op /\ last.err = "ok"
WinningAccount(m, t) ==
    IF markets[m].outcome = "Yes" THEN yes_acct[m][t] ELSE no_acct[m][t]
WinningSupply(mk) == IF mk.outcome = "Yes" THEN mk.yes_supply ELSE mk.no_supply

\* C1: in a Resolved market whose reserves were R0 at resolution, as long as
\* only redeem has run since, the payouts of the successful redeems add up to
\* at most R0, and each was taken out of the reserves of its moment: the
\* ledger holds exactly what is left of R0, never less than nothing.
C1_PayoutsWithinReserves ==
    \A m \in Markets :
        hist[m].only_redeems =>
            /\ markets[m].status = "Resolved"
            /\ hist[m].paid <= hist[m].resolved_reserves
            /\ markets[m].reserves + hist[m].paid = hist[m].resolved_reserves
            /\ markets[m].reserves >= 0
            /\ markets[m].reserves <= vault[m]

\* two holders have been paid out of the reserves fixed at resolution
C1_Witness ==
    /\ Succeeded("redeem")
    /\ hist[last.m].only_redeems
    /\ hist[last.m].redeems = 2
    /\ last.out > 0
    /\ hist[last.m].paid > last.out

\* C2: a successful redeem of holder_balance winning tokens takes the
\* collateral paid off the reserves and holder_balance off the ledger's
\* supply of the winning side, so that the next redeem sees both reduced.
C2_RedeemReducesReservesAndSupply ==
    [][(last'.op = "redeem" /\ last'.err = "ok") =>
           /\ markets'[last'.m].reserves = markets[last'.m].reserves - last'.out
           /\ WinningSupply(markets'[last'.m])
                  = WinningSupply(markets[last'.m]) - last'.amount]_vars

\* C3: once every holder of winning tokens has redeemed, what is left in the
\* reserves is rounding dust: fewer base units than there were redemptions.
C3_LeftoverIsDust ==
    \A m \in Markets :
        (/\ hist[m].only_redeems
         /\ hist[m].redeems > 0
         /\ \A t \in Traders : WinningAccount(m, t) = 0)
        => markets[m].reserves < hist[m].redeems

(***************************************************************************)
(* Trading                                                                 *)
(***************************************************************************)
\* |reserves - isqrt(yes^2 + no^2)| <= 4 * PRECISION_SCALE, in u128
WithinCurveBound(mk) ==
    LET y  == WFromNat(mk.yes_supply)
        n  == WFromNat(mk.no_supply)
        sq == WAdd(WMul(y, y), WMul(n, n))
        lo == IF mk.reserves > 4 * PRECISION_SCALE
              THEN WFromNat(mk.reserves - 4 * PRECISION_SCALE) ELSE << >>
        hi == WFromNat(mk.reserves + 4 * PRECISION_SCALE + 1)
    IN  WLeq(WMul(lo, lo), sq) /\ WLess(sq, WMul(hi, hi))

Traded(l) == l.op \in {"buy_tokens", "sell_tokens"} /\ l.err = "ok"

\* C4: a successful buy or sell on a funded Active market whose reserves are
\* within 4 * PRECISION_SCALE of isqrt(yes_supply^2 + no_supply^2) leaves
\* the ledger within the same distance.
C4_TradeKeepsCurveBound ==
    [][(/\ Traded(last')
        /\ markets[last'.m].reserves > 0
        /\ WithinCurveBound(markets[last'.m]))
       => WithinCurveBound(markets'[last'.m])]_vars

\* a second trade has gone through, and the ledger is off the curve by more
\* than one scaled unit but within the bound
C4_Witness ==
    /\ Traded(last)
    /\ hist[last.m].trades = 2
    /\ WithinCurveBound(markets[last.m])
    /\ markets[last.m].reserves % PRECISION_SCALE # 0

\* C5: a buy that moves L into the reserves and mints tokensOut, followed at
\* once by a sell of exactly tokensOut of the same side by the same trader,
\* pays back at most L.
C5_RoundTripPaysAtMostL ==
    [][(/\ last.op = "buy_tokens" /\ last.err = "ok"
        /\ last'.op = "sell_tokens" /\ last'.err = "ok"
        /\ last'.who = last.who /\ last'.m = last.m /\ last'.yes = last.yes
        /\ last'.amount = last.out)
       => last'.out <= last.moved]_vars

(***************************************************************************)
(* Resolution                                                              *)
(***************************************************************************)
Ended(mk, t) == ~WLess(WFromNat(t), mk.end_time)
Resolving(l) == l.op = "resolve_market"
Unchanged(m) ==
    /\ markets'[m] = markets[m]
    /\ vault'[m] = vault[m]
    /\ yes_acct'[m] = yes_acct[m]
    /\ no_acct'[m] = no_acct[m]

\* C6: Resolved and Cancelled are terminal: no instruction changes the status
\* or the outcome of such a market, and a resolve_market sent to it fails.
C6_ResolvedIsTerminal ==
    [][\A m \in Markets :
           markets[m].status \in {"Resolved", "Cancelled"} =>
               /\ markets'[m].status = markets[m].status
               /\ markets'[m].outcome = markets[m].outcome
               /\ (Resolving(last') /\ last'.m = m) => last'.err # "ok"]_vars

\* the oracle has tried to resolve a resolved market the other way
C6_Witness ==
    /\ Resolving(last)
    /\ last.who = config.oracle
    /\ last.err = "CannotResolve"
    /\ markets[last.m].status = "Resolved"
    /\ markets[last.m].outcome = (IF last.yes THEN "No" ELSE "Yes")

\* C7: resolve_market sent by the oracle while now < end_time fails with
\* MarketNotEnded and leaves the market Active and Undetermined.
C7_EarlyResolveFails ==
    [][(/\ Resolving(last')
        /\ last'.who = config.oracle
        /\ markets[last'.m].status = "Active"
        /\ ~Ended(markets[last'.m], now))
       => /\ last'.err = "MarketNotEnded"
          /\ markets'[last'.m].status = "Active"
          /\ markets'[last'.m].outcome = "Undetermined"]_vars

\* C8: resolve_market sent by anyone but config.oracle fails with
\* Unauthorized, whatever the market's status and the time, and changes
\* nothing.
C8_OnlyOracleResolves ==
    [][(Resolving(last') /\ last'.who # config.oracle)
       => /\ last'.err = "Unauthorized"
          /\ Unchanged(last'.m)
          /\ config' = config]_vars

\* somebody else has tried to resolve an Active market past its end_time,
\* an outsider has tried on a Resolved one
C8_Witness ==
    /\ Resolving(last)
    /\ last.who # config.oracle
    /\ last.err = "Unauthorized"
    /\ \/ markets[last.m].status = "Resolved"
       \/ markets[last.m].status = "Active" /\ Ended(markets[last.m], now)
    /\ markets[last.m].reserves > 0

\* C9: with now >= end_time, the oracle calling and the market Active or
\* Ended, resolve_market succeeds: the status becomes Resolved, the outcome
\* Yes or No as yes_wins says, and reserves, supplies, end_time and the token
\* accounts stay as they were.
C9_ResolveSetsOutcomeOnly ==
    [][(/\ Resolving(last')
        /\ last'.who = config.oracle
        /\ markets[last'.m].status \in {"Active", "Ended"}
        /\ Ended(markets[last'.m], now))
       => /\ last'.err = "ok"
          /\ markets'[last'.m] =
                 [markets[last'.m] EXCEPT
                      !.status = "Resolved",
                      !.outcome = IF last'.yes THEN "Yes" ELSE "No"]
          /\ vault' = vault /\ yes_acct' = yes_acct /\ no_acct' = no_acct
          /\ wallet' = wallet]_vars

\* a traded market has been resolved at its end_time
C9_Witness ==
    /\ Succeeded("resolve_market")
    /\ Ended(markets[last.m], now)
    /\ hist[last.m].trades > 0
    /\ markets[last.m].status = "Resolved"
    /\ markets[last.m].outcome = "Yes"

\* C10: buy_tokens and sell_tokens sent to a market that is still Active
\* with now >= end_time fail, with MarketEnded once the market's mints and
\* vault exist, and leave reserves, supplies and token accounts unchanged.
C10_NoTradeAfterEnd ==
    [][(/\ last'.op \in {"buy_tokens", "sell_tokens"}
        /\ markets[last'.m].status = "Active"
        /\ Ended(markets[last'.m], now))
       => /\ last'.err # "ok"
          /\ (markets[last'.m].vaults => last'.err = "MarketEnded")
          /\ Unchanged(last'.m)
          /\ wallet' = wallet]_vars

\* a buy has been refused on a funded market that nobody has resolved yet
C10_Witness ==
    /\ last.op = "buy_tokens"
    /\ last.err = "MarketEnded"
    /\ markets[last.m].status = "Active"
    /\ markets[last.m].reserves > 0
    /\ Ended(markets[last.m], now)

(***************************************************************************)
(* After resolution                                                        *)
(***************************************************************************)
Trading(l) == l.op \in {"buy_tokens", "sell_tokens"}
Redeeming(l) == l.op = "redeem"

\* C11: in a Resolved market every buy_tokens and sell_tokens fails, and no
\* instruction raises reserves, yes_supply or no_supply any more.
C11_ResolvedLedgerNeverGrows ==
    [][\A m \in Markets :
           markets[m].status = "Resolved" =>
               /\ (Trading(last') /\ last'.m = m) => last'.err # "ok"
               /\ markets'[m].reserves <= markets[m].reserves
               /\ markets'[m].yes_supply <= markets[m].yes_supply
               /\ markets'[m].no_supply <= markets[m].no_supply]_vars

\* C12: redeem on a market that is not Resolved fails, with NotResolved once
\* the market's mints and vault exist, pays nothing and burns nothing.
C12_RedeemNeedsResolution ==
    [][(Redeeming(last') /\ markets[last'.m].status # "Resolved")
       => /\ markets[last'.m].outcome = "Undetermined"
          /\ last'.err # "ok"
          /\ (markets[last'.m].vaults => last'.err = "NotResolved")
          /\ last'.out = 0 /\ last'.amount = 0
          /\ Unchanged(last'.m)
          /\ wallet' = wallet]_vars

\* a holder of both sides has tried to redeem on a funded Active market
C12_Witness ==
    /\ Redeeming(last)
    /\ last.err = "NotResolved"
    /\ markets[last.m].status = "Active"
    /\ markets[last.m].reserves > 0
    /\ yes_acct[last.m][last.who] > 0
    /\ no_acct[last.m][last.who] > 0

\* C13: a successful redeem pays the q with q * supply <= balance * reserves
\* < (q + 1) * supply, the products taken in u128 on the ledger as it is at
\* the call; it burns the holder's whole balance of the winning side and
\* takes exactly q off the reserves and out of the vault.
C13_RedeemPaysFloorShare ==
    [][(Redeeming(last') /\ last'.err = "ok") =>
           LET m    == last'.m
               who  == last'.who
               bal  == WinningAccount(m, who)
               sup  == WFromNat(WinningSupply(markets[m]))
               prod == WMul(WFromNat(bal), WFromNat(markets[m].reserves))
           IN  /\ last'.amount = bal
               /\ WLeq(WMul(WFromNat(last'.out), sup), prod)
               /\ WLess(prod, WMul(WFromNat(last'.out + 1), sup))
               /\ (IF markets[m].outcome = "Yes" THEN yes_acct'[m][who]
                   ELSE no_acct'[m][who]) = 0
               /\ markets'[m].reserves = markets[m].reserves - last'.out
               /\ vault'[m] = vault[m] - last'.out
               /\ wallet'[who] = wallet[who] + last'.out]_vars

\* a holder who is not the only one has been paid a share that is neither
\* nothing nor everything
C13_Witness ==
    /\ Succeeded("redeem")
    /\ last.out > 0
    /\ markets[last.m].reserves > 0
    /\ last.amount < WinningSupply(markets[last.m])
    /\ hist[last.m].redeems = 1

(***************************************************************************)
(* The exact effects of a trade                                            *)
(***************************************************************************)
Buying(l) == l.op = "buy_tokens"
Selling(l) == l.op = "sell_tokens"

\* floor(amount * fee_bps / 10000), for amounts whose product fits u64
FeeOf(amount) == (amount * config.protocol_fee_bps) \div BPS_DENOMINATOR

SideSupply(mk, yes) == IF yes THEN mk.yes_supply ELSE mk.no_supply

SideAccount(m, who, yes) == IF yes THEN yes_acct[m][who] ELSE no_acct[m][who]

\* what the curve mints for the call l on the ledger mk
TokensFor(mk, l) ==
    get_tokens_to_mint(mk.reserves, SideSupply(mk, l.yes), SideSupply(mk, ~l.yes), l.amount - FeeOf(l.amount))

\* what the curve releases for the call l on the ledger mk, before the fee
ReleaseFor(mk, l) ==
    get_reserve_to_release(mk.reserves, SideSupply(mk, l.yes), SideSupply(mk, ~l.yes), l.amount)

\* C14: a successful buy_tokens takes fee = floor(amount * fee_bps / 10000),
\* mints get_tokens_to_mint of the pre-trade ledger for net = amount - fee,
\* moves exactly net from the trader to the vault, adds net to reserves and
\* the minted tokens to the bought side's supply, and leaves the other
\* supply, status and outcome alone.
C14_BuyEffects ==
    [][(Buying(last') /\ last'.err = "ok") =>
           LET l   == last'
               mk  == markets[l.m]
               net == l.amount - FeeOf(l.amount)
               tok == TokensFor(mk, l)
           IN  /\ tok.ok
               /\ l.out = tok.val
               /\ l.moved = net
               /\ wallet'[l.who] = wallet[l.who] - net
               /\ vault'[l.m] = vault[l.m] + net
               /\ markets'[l.m].reserves = mk.reserves + net
               /\ SideSupply(markets'[l.m], l.yes) = SideSupply(mk, l.yes) + tok.val
               /\ SideSupply(markets'[l.m], ~l.yes) = SideSupply(mk, ~l.yes)
               /\ markets'[l.m].status = mk.status
               /\ markets'[l.m].outcome = mk.outcome
               /\ (IF l.yes THEN yes_acct'[l.m][l.who] ELSE no_acct'[l.m][l.who])
                      = SideAccount(l.m, l.who, l.yes) + tok.val
               /\ (IF l.yes THEN no_acct' = no_acct ELSE yes_acct' = yes_acct)]_vars

\* a buy that paid a fee on a market whose two supplies already differ
C14_Witness ==
    /\ Succeeded("buy_tokens")
    /\ config.protocol_fee_bps > 0
    /\ last.moved < last.amount
    /\ hist[last.m].trades = 2
    /\ last.out > 0

\* C15: a successful sell_tokens releases get_reserve_to_release of the
\* pre-trade ledger, takes fee = floor(collateralOut * fee_bps / 10000) from
\* it, pays the trader collateralOut - fee, burns amount tokens, takes the
\* full collateralOut off the reserves and amount off the sold side's supply,
\* and leaves the other supply, status and outcome alone.
C15_SellEffects ==
    [][(Selling(last') /\ last'.err = "ok") =>
           LET l   == last'
               mk  == markets[l.m]
               rel == ReleaseFor(mk, l)
               fee == FeeOf(rel.val)
           IN  /\ rel.ok
               /\ l.moved = rel.val
               /\ l.out = rel.val - fee
               /\ wallet'[l.who] = wallet[l.who] + (rel.val - fee)
               /\ (IF l.yes THEN yes_acct'[l.m][l.who] ELSE no_acct'[l.m][l.who])
                      = SideAccount(l.m, l.who, l.yes) - l.amount
               /\ (IF l.yes THEN no_acct' = no_acct ELSE yes_acct' = yes_acct)
               /\ markets'[l.m].reserves = mk.reserves - rel.val
               /\ SideSupply(markets'[l.m], l.yes) = SideSupply(mk, l.yes) - l.amount
               /\ SideSupply(markets'[l.m], ~l.yes) = SideSupply(mk, ~l.yes)
               /\ markets'[l.m].status = mk.status
               /\ markets'[l.m].outcome = mk.outcome]_vars

\* a sell from which a fee was kept back
C15_Witness ==
    /\ Succeeded("sell_tokens")
    /\ config.protocol_fee_bps > 0
    /\ last.out < last.moved
    /\ last.out > 0

\* the checks a trade passes before it computes anything
OpenForTrading(mk) ==
    /\ mk.mints /\ mk.vaults
    /\ mk.status = "Active"
    /\ I64Less(ClockI64(now), AsI64(mk.end_time))
    /\ ~config.paused

\* what the call l would deliver on the ledger mk: tokens for a buy, the
\* payout after the fee for a sell
Delivery(mk, l) ==
    IF Buying(l) THEN TokensFor(mk, l)
    ELSE LET rel == ReleaseFor(mk, l) IN
         IF rel.ok THEN Ok(rel.val - FeeOf(rel.val)) ELSE rel

\* C16: a trade that reaches the curve and would deliver less than the
\* caller's minimum fails with SlippageExceeded; a trade that fails so moves
\* no collateral, mints and burns nothing and leaves the ledger alone; a trade
\* that succeeds delivers at least the minimum.
C16_SlippageFirst ==
    [][Trading(last') =>
           LET l  == last'
               mk == markets[l.m]
           IN  /\ (OpenForTrading(mk) /\ Delivery(mk, l).ok
                      /\ Delivery(mk, l).val < l.min)
                      => l.err = "SlippageExceeded"
               /\ (l.err = "SlippageExceeded")
                      => /\ Delivery(mk, l).val < l.min
                         /\ l.out = 0 /\ l.moved = 0
                         /\ Unchanged(l.m)
                         /\ wallet' = wallet
               /\ (l.err = "ok") => (l.out >= l.min)]_vars

\* a sell whose payout fell short of a minimum the trader could have covered
C16_Witness ==
    /\ Selling(last)
    /\ last.err = "SlippageExceeded"
    /\ last.min > 0
    /\ SideAccount(last.m, last.who, last.yes) >= last.amount
    /\ markets[last.m].reserves > 0

Failing(l) ==
    /\ l.op \in {"buy_tokens", "sell_tokens", "resolve_market", "redeem", "fund_market"}
    /\ l.err # "ok"

C17_PausedTradesFail ==
    [][(/\ Trading(last')
        /\ config.paused
        /\ markets[last'.m].status = "Active"
        /\ markets[last'.m].mints /\ markets[last'.m].vaults)
       => /\ last'.err = (IF Ended(markets[last'.m], now) THEN "MarketEnded"
                          ELSE "ProtocolPaused")
          /\ Unchanged(last'.m)
          /\ wallet' = wallet]_vars

(***************************************************************************)
(* Full-width arithmetic                                                   *)
(***************************************************************************)
ReturnedFrom(f) == last.op = "return" /\ last.f = f

\* C19: when the scaled result of get_tokens_to_mint or get_reserve_to_release
\* does not fit 64 bits, or the product amount * fee_bps of a trade does not,
\* the call fails with the typed Overflow error; it neither returns a value
\* nor fails in another way.
C19_OverflowIsTyped ==
    /\ ReturnedFrom("get_tokens_to_mint") =>
           LET exact == mint_scaled_result(last.args[1], last.args[2], last.args[3], last.args[4])
           IN  (exact.ok /\ ~U64Fits(exact.val)) => last.res.err = "Overflow"
    /\ ReturnedFrom("get_reserve_to_release") =>
           LET exact == release_scaled_result(last.args[1], last.args[2], last.args[3], last.args[4])
           IN  (exact.ok /\ ~U64Fits(exact.val)) => last.res.err = "Overflow"
    /\ ReturnedFrom("protocol_fee") =>
           (~U64Fits(WMul(last.args[1], last.args[2])) => last.res.err = "Overflow")

\* C20: for every x of the unsigned 128-bit range sqrt(x) returns the y with
\* y * y <= x < (y + 1) * (y + 1).
C20_SqrtIsFloorRoot ==
    ReturnedFrom("sqrt") =>
        LET x == last.args[1]
            y == last.res.val
        IN  /\ last.res.ok
            /\ WLeq(WMul(y, y), x)
            /\ WLess(x, WMul(WAdd(y, << 1 >>), WAdd(y, << 1 >>)))

(***************************************************************************)
(* Prices                                                                  *)
(***************************************************************************)
\* C21: get_price never fails, returns at most 10000 basis points, and
\* returns exactly 5000 when reserves is 0.
C21_PriceWithinBounds ==
    ReturnedFrom("get_price") =>
        /\ last.res.ok
        /\ WLeq(last.res.val, WFromNat(BPS_DENOMINATOR))
        /\ (last.args[1] = << >>) => (last.res.val = WFromNat(5000))

\* C22: with yes_supply = no_supply get_prices returns two equal prices, and
\* when the reserves are those of the curve, isqrt(2 * supply^2), with a
\* supply that is not 0, both prices lie between 7000 and 7200 basis points.
C22_BalancedPrices ==
    (ReturnedFrom("get_prices") /\ last.args[2] = last.args[3]) =>
        /\ last.res.ok
        /\ last.res.val[1] = last.res.val[2]
        /\ (last.args[2] # << >> /\ last.args[1] = BalancedReserves(last.args[2]))
               => /\ WLeq(WFromNat(7000), last.res.val[1])
                  /\ WLeq(last.res.val[1], WFromNat(7200))

\* the price get_prices gives the side yes on the ledger mk
PriceOf(mk, yes) ==
    LET prices == get_prices(mk.reserves, mk.yes_supply, mk.no_supply).val
    IN  IF yes THEN prices[1] ELSE prices[2]

\* C23: a successful buy on a funded market within the curve bound mints a
\* positive amount, does not lower the price of the bought side and does not
\* raise the price of the other side, the prices taken by get_prices on the
\* ledger before and after.
C23_BuyMovesPrices ==
    [][(/\ Buying(last') /\ last'.err = "ok"
        /\ markets[last'.m].reserves > 0
        /\ WithinCurveBound(markets[last'.m]))
       => LET l == last'
              before == markets[l.m]
              after == markets'[l.m]
          IN  /\ l.out > 0
              /\ PriceOf(after, l.yes) >= PriceOf(before, l.yes)
              /\ PriceOf(after, ~l.yes) <= PriceOf(before, ~l.yes)]_vars

\* C24: on a ledger within the curve bound with both supplies positive, a
\* sell of 0 < amount <= supply tokens releases, before the fee, no more
\* collateral than the tokens it burns.
C24_ReleaseAtMostBurned ==
    [][(/\ Selling(last') /\ last'.err = "ok"
        /\ WithinCurveBound(markets[last'.m])
        /\ markets[last'.m].yes_supply > 0
        /\ markets[last'.m].no_supply > 0)
       => /\ last'.moved = ReleaseFor(markets[last'.m], last').val
          /\ last'.moved <= last'.amount]_vars

Funding(l) == l.op = "fund_market"

\* isqrt(yes_supply^2 + no_supply^2), as tests::test_invariant_holds takes it
CurveRoot(mk) ==
    LET y == WFromNat(mk.yes_supply)
        n == WFromNat(mk.no_supply)
    IN  WToNat(integer_sqrt(WAdd(WMul(y, y), WMul(n, n))))

\* what a successful fund_market does to the ledger and to the token accounts
Seeded(l) ==
    LET before == markets[l.m]
        after == markets'[l.m]
        token_amount == initial_token_amount(l.amount)
    IN  /\ l.amount >= config.min_liquidity
        /\ after.reserves = l.amount
        /\ after.yes_supply = token_amount
        /\ after.no_supply = token_amount
        /\ yes_acct'[l.m][l.who] = yes_acct[l.m][l.who] + token_amount
        /\ no_acct'[l.m][l.who] = no_acct[l.m][l.who] + token_amount
        /\ \A t \in Traders \ {l.who} :
               /\ yes_acct'[l.m][t] = yes_acct[l.m][t]
               /\ no_acct'[l.m][t] = no_acct[l.m][t]
        /\ vault'[l.m] = vault[l.m] + l.amount
        /\ wallet'[l.who] = wallet[l.who] - l.amount
        /\ after.reserves - CurveRoot(after) \in 0 .. 2

\* C25: a successful fund_market with initial liquidity L >= min_liquidity
\* sets reserves = L and both supplies to isqrt(L^2 / 2), mints that amount
\* of each side to the creator, moves L from the creator into the vault,
\* leaves reserves within 2 of isqrt(yes_supply^2 + no_supply^2), and the
\* funded market is Active with outcome Undetermined.
C25_FundingSeedsCurve ==
    [][(Funding(last') /\ last'.err = "ok")
       => /\ Seeded(last')
          /\ markets'[last'.m].status = "Active"
          /\ markets'[last'.m].outcome = "Undetermined"]_vars

\* the ledger part alone, whatever the status of the market funded
C25_FundingLedger ==
    [][(Funding(last') /\ last'.err = "ok") => Seeded(last')]_vars

Creating(l) == l.op \in {"create_market_state", "fund_market"}

CreationErrors == {"InsufficientLiquidity", "InvalidEndTime", "QuestionTooLong"}

\* C26: a creation step that fails with InsufficientLiquidity, InvalidEndTime
\* or QuestionTooLong creates no market and leaves market_count unchanged,
\* and every Active market has passed the three checks: its state was created
\* with a future end_time and a question within MAX_QUESTION_LEN, and it was
\* funded with at least min_liquidity.
C26_CreationChecks ==
    [][/\ (Creating(last') /\ last'.err \in CreationErrors)
              => /\ markets' = markets
                 /\ config'.market_count = config.market_count
       /\ \A m \in DOMAIN markets' :
              markets'[m].status = "Active" => hist'[m].fundings >= 1]_vars

\* the failing steps alone
C26_FailedCreationKeepsCount ==
    [][(Creating(last') /\ last'.err \in CreationErrors)
          => /\ markets' = markets
             /\ config'.market_count = config.market_count]_vars

CreatingState(l) == l.op = "create_market_state"

MarketIds(mks) == {mks[m].id : m \in DOMAIN mks}

\* C27: a successful create_market_state adds one market whose id is the
\* market_count it found and raises market_count by one in the same step; a
\* failed one, and every other instruction, leaves the markets' ids and
\* market_count alone; so the ids are distinct, they are 0 .. market_count - 1,
\* and market_count is the number of markets created.
C27_IdsFollowCount ==
    [][/\ IF CreatingState(last') /\ last'.err = "ok"
          THEN /\ Len(markets') = Len(markets) + 1
               /\ markets'[Len(markets')].id = config.market_count
               /\ config'.market_count = config.market_count + 1
               /\ \A m \in DOMAIN markets : markets'[m] = markets[m]
          ELSE /\ Len(markets') = Len(markets)
               /\ \A m \in DOMAIN markets : markets'[m].id = markets[m].id
               /\ config'.market_count = config.market_count
       /\ config'.market_count = Len(markets')
       /\ \A m1, m2 \in DOMAIN markets' :
              m1 # m2 => markets'[m1].id # markets'[m2].id
       /\ MarketIds(markets') = 0 .. (config'.market_count - 1)]_vars

\* a second market has just been created, by the other creator
C27_Witness ==
    /\ Succeeded("create_market_state")
    /\ Len(markets) = 2
    /\ markets[1].creator # markets[2].creator
    /\ markets[2].id = 1
    /\ config.market_count = 2

\* what the request l returns and leaves as the market's ledger when it runs
\* alone on the present state
SerialOutcome(l) ==
    IF Buying(l)
    THEN buy_tokens(markets[l.m], config, now, wallet[l.who], l.amount, l.yes, l.min)
    ELSE IF Selling(l)
    THEN sell_tokens(markets[l.m], config, now, SideAccount(l.m, l.who, l.yes), vault[l.m], l.amount, l.yes, l.min)
    ELSE redeem(markets[l.m], yes_acct[l.m][l.who], no_acct[l.m][l.who], vault[l.m])

LosingAccount(m, t) ==
    IF markets[m].outcome = "Yes" THEN no_acct[m][t] ELSE yes_acct[m][t]

\* C29: on a Resolved market whose mints and vault exist, redeem by a holder
\* with no winning tokens fails with NoWinningTokens and changes nothing,
\* whatever their losing tokens; no redeem changes anyone's losing-side
\* balance or the losing side's supply; and a successful redeem leaves the
\* holder with no winning tokens, so that their next redeem fails unless
\* they get new ones.
C29_LosersGetNothing ==
    [][Redeeming(last') =>
           LET l == last'
               mk == markets[l.m]
           IN  /\ (/\ mk.status = "Resolved" /\ mk.mints /\ mk.vaults
                   /\ WinningAccount(l.m, l.who) = 0)
                      => /\ l.err = "NoWinningTokens"
                         /\ l.out = 0 /\ l.amount = 0
                         /\ Unchanged(l.m)
                         /\ wallet' = wallet
               /\ mk.status = "Resolved"
                      => /\ \A t \in Traders :
                                (IF mk.outcome = "Yes" THEN no_acct'[l.m][t]
                                 ELSE yes_acct'[l.m][t]) = LosingAccount(l.m, t)
                         /\ markets'[l.m].yes_supply = mk.yes_supply
                         /\ markets'[l.m].no_supply = mk.no_supply
               /\ l.err = "ok"
                      => /\ WinningAccount(l.m, l.who) > 0
                         /\ (IF mk.outcome = "Yes" THEN yes_acct'[l.m][l.who]
                             ELSE no_acct'[l.m][l.who]) = 0]_vars

\* a holder of losing tokens only has been turned away
C29_Witness ==
    /\ last.op = "redeem"
    /\ last.err = "NoWinningTokens"
    /\ markets[last.m].reserves > 0
    /\ WinningAccount(last.m, last.who) = 0
    /\ LosingAccount(last.m, last.who) > 0

\* a holder who has been paid asks again and is turned away
C29_RepeatWitness ==
    /\ last.op = "redeem"
    /\ last.err = "NoWinningTokens"
    /\ hist[last.m].redeems >= 1
    /\ wallet[last.who] > InitialWallet

\* y is the floor of the square root of x
IsFloorRoot(y, x) ==
    /\ WLeq(WMul(y, y), x)
    /\ WLess(x, WMul(WAdd(y, << 1 >>), WAdd(y, << 1 >>)))

\* the result res of get_tokens_to_mint is the one the reference computation
\* gives for the inputs, r, a, b, l being their floors by PRECISION_SCALE
MatchesMintReference(reserves, target_supply, other_supply, collateral_in, res) ==
    LET r == WDiv(reserves, WScale)
        a == WDiv(target_supply, WScale)
        b == WDiv(other_supply, WScale)
        l == WDiv(collateral_in, WScale)
        new_r == WAdd(r, l)
        new_r_squared == WMul(new_r, new_r)
        b_squared == WMul(b, b)
        a_next == WAdd(a, << 1 >>)
    IN  IF reserves = << >> \/ collateral_in = << >>
        THEN res.err = "InvalidReserves"
        ELSE IF WLess(new_r_squared, b_squared)
        THEN res.err = "InvalidSupplies"
        ELSE IF WLess(WSub(new_r_squared, b_squared), WMul(a_next, a_next))
        THEN res.err = "NoTokensToMint"
        ELSE /\ res.ok
             /\ WDivMod(res.val, WScale).r = << >>
             /\ IsFloorRoot(WAdd(WDiv(res.val, WScale), a),
                            WSub(new_r_squared, b_squared))

\* C30: get_tokens_to_mint fails with InvalidReserves if reserves or
\* collateral_in is 0, with InvalidSupplies if (r + l)^2 < b^2, with
\* NoTokensToMint if isqrt((r + l)^2 - b^2) <= a, and otherwise returns
\* (isqrt((r + l)^2 - b^2) - a) * 1000.
C30_MintMatchesReference ==
    ReturnedFrom("get_tokens_to_mint") =>
        MatchesMintReference(last.args[1], last.args[2], last.args[3], last.args[4], last.res)

\* the same for the calls whose exact result fits 64 bits
C30_MintMatchesReferenceInRange ==
    (/\ ReturnedFrom("get_tokens_to_mint")
     /\ LET exact == mint_scaled_result(last.args[1], last.args[2], last.args[3], last.args[4])
        IN  exact.ok => U64Fits(exact.val))
        => MatchesMintReference(last.args[1], last.args[2], last.args[3], last.args[4], last.res)

\* the result res of get_reserve_to_release is the one the reference
\* computation gives, r, a, b, k being the floors by PRECISION_SCALE
MatchesReleaseReference(reserves, target_supply, other_supply, tokens_to_burn, res) ==
    LET r == WDiv(reserves, WScale)
        a == WDiv(target_supply, WScale)
        b == WDiv(other_supply, WScale)
        k == WDiv(tokens_to_burn, WScale)
        left == WSub(a, k)
        x == WAdd(WMul(left, left), WMul(b, b))
        out == WDiv(res.val, WScale)
    IN  IF tokens_to_burn = << >> THEN ~res.ok
        ELSE IF WLess(target_supply, tokens_to_burn)
        THEN res.err = "InsufficientTokens"
        ELSE /\ res.ok
             /\ WDivMod(res.val, WScale).r = << >>
             /\ WLeq(res.val, reserves)
             /\ IF WLeq(WMul(r, r), x) THEN out = << >>
                ELSE WLeq(out, r) /\ IsFloorRoot(WSub(r, out), x)

\* C31: get_reserve_to_release fails if burn is 0, fails with
\* InsufficientTokens if burn > target, and otherwise returns
\* max(0, r - isqrt((a - k)^2 + b^2)) * 1000, which is at most reserves; when
\* the recomputed reserve exceeds r the result is 0, not a failure.
C31_ReleaseMatchesReference ==
    ReturnedFrom("get_reserve_to_release") =>
        MatchesReleaseReference(last.args[1], last.args[2], last.args[3], last.args[4], last.res)

\* a call whose recomputed reserve exceeds r has returned 0
C31_Witness ==
    /\ ReturnedFrom("get_reserve_to_release")
    /\ last.res.ok
    /\ last.res.val = << >>
    /\ WLess(last.args[1], last.args[3])

(***************************************************************************)
(* The loop of sqrt                                                        *)
(***************************************************************************)
\* z is not below the floor of the square root of x
AtLeastFloorRoot(z, x) ==
    LET next == WAdd(z, << 1 >>) IN WLess(x, WMul(next, next))

\* C32: the loop of sqrt ends for every input: it never divides by zero, each
\* pass through the loop takes y strictly down, the iterate z starts at
\* (x + 1) / 2 and never falls below floor(sqrt(x)), and every call returns.
C32_NewtonTerminates ==
    /\ [][/\ (last.op = "call" /\ last'.op = "loop")
                 => /\ WAdd(last'.z, last'.z) \in
                           {WAdd(last.args[1], << 1 >>), last.args[1]}
                    /\ AtLeastFloorRoot(last'.z, last.args[1])
          /\ last.op = "loop"
                 => /\ last'.res.err # "attempt to divide by zero"
                    /\ last'.op = "loop"
                           => /\ WLess(last'.y, last.y)
                              /\ AtLeastFloorRoot(last'.z, last.args[1])]_vars
    /\ <>(last.op = "return")

\* what makes the loop end, for every call but sqrt(2^128 - 1): no division
\* by zero, y strictly down on each pass, z never below floor(sqrt(x))
C32_LoopVariantInWidth ==
    [][/\ (last.op = "call" /\ last'.op = "loop" /\ last.args[1] # U128Max)
              => AtLeastFloorRoot(last'.z, last.args[1])
       /\ (last.op = "loop" /\ last.args[1] # U128Max)
              => /\ last'.res.err # "attempt to divide by zero"
                 /\ last'.op = "loop"
                        => /\ WLess(last'.y, last.y)
                           /\ AtLeastFloorRoot(last'.z, last.args[1])]_vars

\* C33: for every x up to 2^128 - 1 no intermediate value of sqrt, neither
\* x + 1 nor x / z + z, exceeds 128 bits: the call returns a value.
C33_SqrtStaysInWidth ==
    [][/\ last.op = "call"
              => U128Fits(WAdd(last.args[1], << 1 >>))
       /\ (last.op = "loop" /\ WLess(last.z, last.y) /\ last.z # << >>)
              => U128Fits(WAdd(WDiv(last.args[1], last.z), last.z))
       /\ last'.op = "return" => last'.res.ok]_vars

(***************************************************************************)
(* The trading window                                                      *)
(***************************************************************************)
\* C34: once now >= end_time no instruction raises the market's reserves,
\* yes_supply or no_supply, whatever its status.
C34_ClosedWindowNeverGrows ==
    [][\A m \in Markets :
           Ended(markets[m], now) =>
               /\ markets'[m].reserves <= markets[m].reserves
               /\ markets'[m].yes_supply <= markets[m].yes_supply
               /\ markets'[m].no_supply <= markets[m].no_supply]_vars

\* buy_tokens alone: it fails on a market whose window has closed
C34_BuyAfterEndFails ==
    [][(Buying(last') /\ Ended(markets[last'.m], now)) => last'.err # "ok"]_vars

(***************************************************************************)
(* Nothing blocks a market forever                                         *)
(***************************************************************************)
\* C35: redeem is never disabled for a holder of winning tokens: in a
\* Resolved market a holder with a positive winning balance can always
\* complete a redeem (the divisor supply is not 0 and the payout does not
\* exceed the vault), so under fairness every such holder is paid.
C35_RedeemNeverDisabled ==
    \A m \in Markets, t \in Traders :
        (markets[m].status = "Resolved" /\ WinningAccount(m, t) > 0)
            => redeem(markets[m], yes_acct[m][t], no_acct[m][t], vault[m]).err = "ok"

\* the other half: once the clock has reached end_time the oracle's
\* resolve_market succeeds on every market that is not yet Resolved
C35_ResolveEnabledAtEnd ==
    \A m \in Markets, y \in BOOLEAN :
        (markets[m].status = "Active" /\ Ended(markets[m], now))
            => resolve_market(markets[m], config, now, config.oracle, y).err = "ok"

(***************************************************************************)
(* Status and outcome                                                      *)
(***************************************************************************)
\* C36: in every reachable state a market's status is Resolved if and only
\* if its outcome is Yes or No: the outcome is Undetermined exactly while
\* the market is not Resolved.
C36_ResolvedIffOutcome ==
    \A m \in Markets :
        (markets[m].status = "Resolved") <=> (markets[m].outcome \in {"Yes", "No"})

\* a market resolved Yes by the oracle, funded again afterwards, and one
\* of its holders paid by a redeem
C36_Witness ==
    /\ Succeeded("redeem")
    /\ markets[last.m].status = "Resolved"
    /\ markets[last.m].outcome = "Yes"
    /\ hist[last.m].fundings = 2

\* a market still open for trading after a trade, its outcome undetermined
C36_OpenWitness ==
    /\ Succeeded("sell_tokens")
    /\ markets[last.m].status = "Active"
    /\ markets[last.m].outcome = "Undetermined"

(***************************************************************************)
(* Vault solvency                                                          *)
(***************************************************************************)
\* collateral in the vault beyond the ledger's reserves
Excess(mks, vlt, m) == vlt[m] - mks[m].reserves

\* the fee a successful sell on market m leaves in the vault
RetainedFee(l, m) ==
    IF Selling(l) /\ l.err = "ok" /\ l.m = m THEN l.moved - l.out ELSE 0

\* a sell or a redeem stopped because the vault holds less than its payout
PayoutExceedsVault(l, held) ==
    /\ l.err = "InsufficientFunds"
    /\ Redeeming(l) \/ (Selling(l) /\ held >= l.amount)

\* the vault holds the ledger's reserves plus the fees retained on sells
C37_VaultCoversLedger ==
    [][\A m \in Markets :
           /\ Excess(markets, vault, m) >= 0
           /\ Excess(markets', vault', m) >= 0
           /\ Excess(markets', vault', m)
                  = Excess(markets, vault, m) + RetainedFee(last', m)]_vars

\* C37: through fund_market, buy_tokens, sell_tokens, resolve_market and
\* redeem the vault holds at least the ledger's reserves, the excess being
\* the fees retained on sells, and no sell or redeem payout exceeds the
\* vault balance.
C37_VaultSolvency ==
    [][/\ \A m \in Markets :
              /\ Excess(markets', vault', m) >= 0
              /\ Excess(markets', vault', m)
                     = Excess(markets, vault, m) + RetainedFee(last', m)
       /\ (Redeeming(last') \/ Selling(last'))
              => ~PayoutExceedsVault(last',
                                    SideAccount(last'.m, last'.who, last'.yes))]_vars

(***************************************************************************)
(* Order of redemption                                                     *)
(***************************************************************************)
\* a and b differ by at most one base unit
WithinRounding(a, b) == a - b <= 1 /\ b - a <= 1

\* floor(balance * R0 / S0) on the reserves and winning supply at resolution
ShareAtResolution(m, balance) ==
    proportional_share(balance, hist[m].resolved_reserves, WinningSupply(markets[m]))

\* C38: in a Resolved market where only redeem has run since resolution,
\* every successful redeem pays floor(balance * R0 / S0) up to rounding, and
\* another holder with the same winning balance is then paid the same up to
\* one base unit, whichever of the two redeems first.
C38_RedeemOrderIndependent ==
    [][(Redeeming(last') /\ last'.err = "ok" /\ hist[last'.m].only_redeems)
       => /\ WithinRounding(last'.out, ShareAtResolution(last'.m, last'.amount))
          /\ \A v \in Traders \ {last'.who} :
                 WinningAccount(last'.m, v) = last'.amount
                     => WithinRounding(last'.out,
                                       redeem(markets'[last'.m],
                                              yes_acct'[last'.m][v],
                                              no_acct'[last'.m][v],
                                              vault'[last'.m]).out)]_vars

\* the first redeem after resolution alone: it pays exactly floor(balance * R0 / S0)
C38_FirstRedeemPaysShare ==
    [][(Redeeming(last') /\ last'.err = "ok" /\ hist[last'.m].only_redeems
        /\ hist[last'.m].redeems = 0)
       => last'.out = ShareAtResolution(last'.m, last'.amount)]_vars

(***************************************************************************)
(* Funding once                                                            *)
(***************************************************************************)
\* C39: fund_market succeeds at most once for a market, and never on a
\* market that has been traded on or resolved.
C39_FundedOnce ==
    [][(Funding(last') /\ last'.err = "ok")
       => /\ hist[last'.m].fundings = 0
          /\ hist[last'.m].trades = 0
          /\ markets[last'.m].status # "Resolved"]_vars

\* while the reserves are above 0 fund_market fails
C39_FundingNeedsEmptyReserves ==
    [][(Funding(last') /\ markets[last'.m].reserves > 0) => last'.err # "ok"]_vars

=============================================================================
